---- MODULE Spec2Model ----
(***************************************************************************)
(* Model of the host/path routing core of src/src/shrpx_config.cc:         *)
(* parse_mapping builds the table of backend groups, and                   *)
(* match_downstream_addr_group resolves a request (hostport, raw_path) to  *)
(* a group index through match and path_match.                             *)
(*                                                                         *)
(* A std::string is a sequence of one-character strings.  Indices the code *)
(* returns (group indices, catch_all) are zero-based as in the code; a     *)
(* position inside a string is one-based, with Len(s) + 1 standing for the *)
(* end iterator.                                                           *)
(***************************************************************************)
EXTENDS Integers, Sequences, FiniteSets, TLC

VARIABLES
  groups,      \* downstream_addr_groups: the table, in insertion order
  catch_all,   \* downstream_addr_group_catch_all: the designated fallback index
  phase,       \* "build" while directives are parsed, "serve" once routing runs
  directives,  \* history: the (addr, src) pairs parse_mapping has processed
  call,        \* the last operation applied, with its arguments and result
  reader,      \* the pointer a request handler holds: ref is "null", "config"
               \* (the object get_config returns) or "stale" (a replaced
               \* object), seen is the table found behind it when it was taken
  stack,       \* the load_config calls in progress, the innermost last
  included_set \* included_set: the names the include directives in progress
               \* have put into the set that parse_config is handed

vars == <<groups, catch_all, phase, directives, call, reader, stack, included_set>>

\* No request handler holds a pointer to the configuration.
NoReader == [ref |-> "null"]

(***************************************************************************)
(* Bounds of the model.                                                    *)
(***************************************************************************)
MaxPattern == 4
MaxHost == 2
MaxPath == 3
MaxMatchGroups == 3
MaxHostport == 3
MaxRawPath == 3
MaxDirectives == 2

\* All strings over chars of length lo..hi.
Str(chars, lo, hi) == UNION {[1..n -> chars] : n \in lo..hi}

(***************************************************************************)
(* Library helpers the code calls.                                         *)
(***************************************************************************)
\* std::find(first, last, c) on s: the first position in [first, last) that
\* holds c, or last.
find(s, first, last, c) ==
  IF \E i \in first..(last - 1) : s[i] = c
  THEN CHOOSE i \in first..(last - 1) :
         s[i] = c /\ \A j \in first..(i - 1) : s[j] # c
  ELSE last

\* std::equal(begin(s), end(s), begin(t) + off): s against t from offset off
\* (zero-based offset, as the code adds it to begin(t)).
equal(s, t, off) == \A i \in 1..Len(s) : s[i] = t[off + i]

\* util::startsWith(first, last, prefix_first, prefix_last).
startsWith(s, prefix) ==
  IF Len(s) < Len(prefix) THEN FALSE ELSE equal(prefix, s, 0)

UpperChars == <<"A", "B", "C", "D", "E", "F", "G", "H", "I", "J", "K", "L", "M",
                "N", "O", "P", "Q", "R", "S", "T", "U", "V", "W", "X", "Y", "Z">>
LowerChars == <<"a", "b", "c", "d", "e", "f", "g", "h", "i", "j", "k", "l", "m",
                "n", "o", "p", "q", "r", "s", "t", "u", "v", "w", "x", "y", "z">>

\* util::lowcase on one character.
lowcase(c) ==
  IF \E i \in 1..26 : UpperChars[i] = c
  THEN LowerChars[CHOOSE i \in 1..26 : UpperChars[i] = c]
  ELSE c

\* util::inp_strlower.
inp_strlower(s) == [i \in 1..Len(s) |-> lowcase(s[i])]

(***************************************************************************)
(* path_match (lines 1439-1463).                                           *)
(***************************************************************************)
\* path_match with an exact-resource pattern taken as a prefix.
path_match_exact_as_prefix(pattern, host, path) ==
  IF pattern[Len(pattern)] # "/"
  THEN /\ Len(pattern) <= Len(host) + Len(path)
       /\ SubSeq(host \o path, 1, Len(pattern)) = pattern
  ELSE \/ /\ Len(pattern) >= Len(host)
          /\ equal(host, pattern, 0)
          /\ startsWith(path, SubSeq(pattern, Len(host) + 1, Len(pattern)))
       \/ /\ Len(pattern) - 1 = Len(host) + Len(path)
          /\ equal(host, pattern, 0)
          /\ equal(path, pattern, Len(host))

\* path_match without the allowance for the missing trailing slash.
path_match_no_dir(pattern, host, path) ==
  IF pattern[Len(pattern)] # "/"
  THEN /\ Len(pattern) = Len(host) + Len(path)
       /\ equal(host, pattern, 0)
       /\ equal(path, pattern, Len(host))
  ELSE /\ Len(pattern) >= Len(host)
       /\ equal(host, pattern, 0)
       /\ startsWith(path, SubSeq(pattern, Len(host) + 1, Len(pattern)))

\* path_match whose prefix branch does not compare the host.
path_match_no_host_check(pattern, host, path) ==
  IF pattern[Len(pattern)] # "/"
  THEN /\ Len(pattern) = Len(host) + Len(path)
       /\ equal(host, pattern, 0)
       /\ equal(path, pattern, Len(host))
  ELSE IF /\ Len(pattern) >= Len(host)
          /\ startsWith(path, SubSeq(pattern, Len(host) + 1, Len(pattern)))
       THEN TRUE
       ELSE /\ Len(pattern) - 1 = Len(host) + Len(path)
            /\ equal(host, pattern, 0)
            /\ equal(path, pattern, Len(host))

path_match(pattern, host, path) ==
  IF pattern[Len(pattern)] # "/"
  THEN /\ Len(pattern) = Len(host) + Len(path)
       /\ equal(host, pattern, 0)
       /\ equal(path, pattern, Len(host))
  ELSE IF /\ Len(pattern) >= Len(host)
          /\ equal(host, pattern, 0)
          /\ startsWith(path, SubSeq(pattern, Len(host) + 1, Len(pattern)))
       THEN TRUE
       ELSE /\ Len(pattern) - 1 = Len(host) + Len(path)
            /\ equal(host, pattern, 0)
            /\ equal(path, pattern, Len(host))

(***************************************************************************)
(* Specification of path_match as a pure function: the arguments are drawn *)
(* from bounded sets and one step applies the function.  The pattern is    *)
(* non-empty (the function asserts it, line 1459) and the host holds no    *)
(* '/' (match_downstream_addr_group never passes one, lines 1540-1545).    *)
(***************************************************************************)
PMChars == {"a", "b", "/"}
PMHostChars == {"a", "b"}

InitPathMatch ==
  /\ groups = <<>>
  /\ catch_all = 0
  /\ reader = NoReader
  /\ stack = <<>>
  /\ included_set = {}
  /\ phase = "path_match"
  /\ directives = <<>>
  /\ \E p \in Str(PMChars, 1, MaxPattern), h \in Str(PMHostChars, 0, MaxHost),
        q \in Str(PMChars, 0, MaxPath) :
       call = [op |-> "args", pattern |-> p, host |-> h, path |-> q, ret |-> FALSE]

PathMatchCall ==
  /\ phase = "path_match"
  /\ call.op = "args"
  /\ call' = [call EXCEPT !.op = "path_match",
                          !.ret = path_match(call.pattern, call.host, call.path)]
  /\ UNCHANGED <<groups, catch_all, phase, directives, reader, stack, included_set>>

NextPathMatch == PathMatchCall

SpecPathMatch == InitPathMatch /\ [][NextPathMatch]_vars

\* C2: a pattern that does not end in '/' matches (host, path) exactly when
\* host followed by path equals the pattern, in length and content.
C2_ExactPattern ==
  (call.op = "path_match" /\ call.pattern[Len(call.pattern)] # "/")
    => (call.ret <=> (call.host \o call.path = call.pattern))

\* path_match has answered TRUE for an exact-resource pattern with a
\* non-empty host and a non-empty path.
C2_Witness ==
  /\ call.op = "path_match"
  /\ call.pattern[Len(call.pattern)] # "/"
  /\ call.host # <<>>
  /\ call.path # <<>>
  /\ call.ret

\* Whether s has p as a prefix.
HasPrefix(s, p) == Len(s) >= Len(p) /\ SubSeq(s, 1, Len(p)) = p

\* C3: a pattern that ends in '/' matches (host, path) exactly when host
\* followed by path has the pattern as a prefix, or equals the pattern with
\* its trailing slash removed.
C3_DirPattern ==
  (call.op = "path_match" /\ call.pattern[Len(call.pattern)] = "/")
    => (call.ret <=>
          \/ HasPrefix(call.host \o call.path, call.pattern)
          \/ call.host \o call.path = SubSeq(call.pattern, 1, Len(call.pattern) - 1))

\* path_match has answered TRUE for a directory pattern through the
\* allowance for a request without the trailing slash.
C3_Witness ==
  /\ call.op = "path_match"
  /\ call.pattern[Len(call.pattern)] = "/"
  /\ Len(call.pattern) > 1
  /\ call.host \o call.path = SubSeq(call.pattern, 1, Len(call.pattern) - 1)
  /\ call.ret

(***************************************************************************)
(* match (lines 1468-1484): the scan over the groups.  i is the zero-based *)
(* loop index, res the best index so far (-1: none) and best its pattern   *)
(* length.                                                                 *)
(***************************************************************************)
RECURSIVE match_loop(_, _, _, _, _, _)
match_loop(host, path, gs, i, res, best) ==
  IF i >= Len(gs) THEN res
  ELSE LET pattern == gs[i + 1].pattern IN
       IF ~path_match(pattern, host, path)
       THEN match_loop(host, path, gs, i + 1, res, best)
       ELSE IF res = -1 \/ best < Len(pattern)
            THEN match_loop(host, path, gs, i + 1, i, Len(pattern))
            ELSE match_loop(host, path, gs, i + 1, res, best)

RECURSIVE match_loop_last(_, _, _, _, _, _)
match_loop_last(host, path, gs, i, res, best) ==
  IF i >= Len(gs) THEN res
  ELSE LET pattern == gs[i + 1].pattern IN
       IF ~path_match(pattern, host, path)
       THEN match_loop_last(host, path, gs, i + 1, res, best)
       ELSE IF res = -1 \/ best <= Len(pattern)
            THEN match_loop_last(host, path, gs, i + 1, i, Len(pattern))
            ELSE match_loop_last(host, path, gs, i + 1, res, best)

\* match with the tie broken the other way (best <= pattern.size()).
match_ties_last(host, path, gs) == match_loop_last(host, path, gs, 0, -1, 0)

match(host, path, gs) == match_loop(host, path, gs, 0, -1, 0)

(***************************************************************************)
(* Specification of match as a pure function over tables of at most        *)
(* MaxMatchGroups groups; a pattern may occur more than once, so that      *)
(* patterns of equal length compete.                                       *)
(***************************************************************************)
MatchPatterns ==
  { <<"/">>, <<"a", "/">>, <<"/", "a">>, <<"/", "a", "/">>, <<"a", "/", "a">>,
    <<"a", "/", "a", "/">>, <<"b", "/">> }
MatchHosts == { <<>>, <<"a">> }
MatchPaths == { <<"/">>, <<"/", "a">>, <<"/", "a", "/">>, <<"/", "a", "/", "a">>,
                <<"/", "b">> }

Group(pattern, addrs) == [pattern |-> pattern, addrs |-> addrs]

InitMatch ==
  /\ \E n \in 0..MaxMatchGroups : \E ps \in [1..n -> MatchPatterns] :
       groups = [i \in 1..n |-> Group(ps[i], <<1>>)]
  /\ catch_all = 0
  /\ reader = NoReader
  /\ stack = <<>>
  /\ included_set = {}
  /\ phase = "match"
  /\ directives = <<>>
  /\ \E h \in MatchHosts, q \in MatchPaths :
       call = [op |-> "args", host |-> h, path |-> q, ret |-> -1]

MatchCall ==
  /\ phase = "match"
  /\ call.op = "args"
  /\ call' = [call EXCEPT !.op = "match",
                          !.ret = match(call.host, call.path, groups)]
  /\ UNCHANGED <<groups, catch_all, phase, directives, reader, stack, included_set>>

NextMatch == MatchCall

SpecMatch == InitMatch /\ [][NextMatch]_vars

\* The zero-based indices of the groups whose pattern matches (host, path).
Matching(host, path, gs) ==
  {i \in 0..(Len(gs) - 1) : path_match(gs[i + 1].pattern, host, path)}

\* C4: match returns -1 exactly when no pattern matches; otherwise the index
\* of a matching group of maximal pattern length, and the smallest index among
\* the matching groups of that length.
C4_LongestFirst ==
  call.op = "match" =>
    LET M == Matching(call.host, call.path, groups) IN
    /\ (call.ret = -1) <=> (M = {})
    /\ M # {} =>
         /\ call.ret \in M
         /\ \A j \in M : Len(groups[j + 1].pattern) <= Len(groups[call.ret + 1].pattern)
         /\ \A j \in M : Len(groups[j + 1].pattern) = Len(groups[call.ret + 1].pattern)
                           => call.ret <= j

\* match has chosen between two matching groups of equal pattern length, with
\* a shorter matching pattern placed before them.
C4_Witness ==
  /\ call.op = "match"
  /\ call.ret = 1
  /\ \E j \in Matching(call.host, call.path, groups) :
       j > call.ret /\ Len(groups[j + 1].pattern) = Len(groups[call.ret + 1].pattern)
  /\ 0 \in Matching(call.host, call.path, groups)

(***************************************************************************)
(* match_downstream_addr_group_host (lines 1489-1534): the tiers of the    *)
(* lookup for an extracted host and the path span [path_first, path_last). *)
(***************************************************************************)
\* The lookup with the result of match returned unchecked for a path
\* without a leading '/'.
match_downstream_addr_group_host_unchecked(host, path, gs, catchAll) ==
  IF path = <<>> \/ path[1] # "/"
  THEN match(host, <<"/">>, gs)
  ELSE LET group == match(host, path, gs) IN
       IF group # -1 THEN group
       ELSE LET group2 == match(<<>>, path, gs) IN
            IF group2 # -1 THEN group2 ELSE catchAll

\* The lookup with the host-agnostic tier tried before the host-specific one.
match_downstream_addr_group_host_agnostic_first(host, path, gs, catchAll) ==
  IF path = <<>> \/ path[1] # "/"
  THEN LET group == match(host, <<"/">>, gs) IN
       IF group # -1 THEN group ELSE catchAll
  ELSE LET group == match(<<>>, path, gs) IN
       IF group # -1 THEN group
       ELSE LET group2 == match(host, path, gs) IN
            IF group2 # -1 THEN group2 ELSE catchAll

\* The lookup without the separate branch for a path without a leading '/'.
match_downstream_addr_group_host_no_authority(host, path, gs, catchAll) ==
  LET group == match(host, path, gs) IN
  IF group # -1 THEN group
  ELSE LET group2 == match(<<>>, path, gs) IN
       IF group2 # -1 THEN group2 ELSE catchAll

match_downstream_addr_group_host(host, path, gs, catchAll) ==
  IF path = <<>> \/ path[1] # "/"
  THEN LET group == match(host, <<"/">>, gs) IN
       IF group # -1 THEN group ELSE catchAll
  ELSE LET group == match(host, path, gs) IN
       IF group # -1 THEN group
       ELSE LET group2 == match(<<>>, path, gs) IN
            IF group2 # -1 THEN group2 ELSE catchAll

\* The path span cut at the first '?' only.
path_span_no_fragment(raw_path) ==
  SubSeq(raw_path, 1, find(raw_path, 1, Len(raw_path) + 1, "?") - 1)

\* The path span of raw_path (lines 1547-1550): up to the first '?' that
\* precedes the first '#', else up to the first '#'.
path_span(raw_path) ==
  LET fragment == find(raw_path, 1, Len(raw_path) + 1, "#")
      query == find(raw_path, 1, fragment, "?")
  IN SubSeq(raw_path, 1, query - 1)

\* The extraction with a leading ':' taken as an empty host.
extract_host_accept_empty(hostport) ==
  LET end == Len(hostport) + 1 IN
  IF hostport[1] = "["
  THEN LET p == find(hostport, 1, end, "]") IN
       IF p = end THEN [rejected |-> TRUE, host |-> <<>>]
       ELSE IF p + 1 < end /\ hostport[p + 1] # ":"
            THEN [rejected |-> TRUE, host |-> <<>>]
            ELSE [rejected |-> FALSE, host |-> inp_strlower(SubSeq(hostport, 1, p))]
  ELSE LET p == find(hostport, 1, end, ":") IN
       [rejected |-> FALSE, host |-> inp_strlower(SubSeq(hostport, 1, p - 1))]

\* The extraction with the port left in a non-bracketed host.
extract_host_keep_port(hostport) ==
  LET end == Len(hostport) + 1 IN
  IF hostport[1] = "["
  THEN LET p == find(hostport, 1, end, "]") IN
       IF p = end THEN [rejected |-> TRUE, host |-> <<>>]
       ELSE IF p + 1 < end /\ hostport[p + 1] # ":"
            THEN [rejected |-> TRUE, host |-> <<>>]
            ELSE [rejected |-> FALSE, host |-> inp_strlower(SubSeq(hostport, 1, p))]
  ELSE LET p == find(hostport, 1, end, ":") IN
       IF p = 1 THEN [rejected |-> TRUE, host |-> <<>>]
       ELSE [rejected |-> FALSE, host |-> inp_strlower(hostport)]

\* The host of a non-empty hostport without '/' (lines 1557-1576), lowercased;
\* rejected when the code returns catch_all instead.
extract_host(hostport) ==
  LET end == Len(hostport) + 1 IN
  IF hostport[1] = "["
  THEN LET p == find(hostport, 1, end, "]") IN
       IF p = end THEN [rejected |-> TRUE, host |-> <<>>]
       ELSE IF p + 1 < end /\ hostport[p + 1] # ":"
            THEN [rejected |-> TRUE, host |-> <<>>]
            ELSE [rejected |-> FALSE, host |-> inp_strlower(SubSeq(hostport, 1, p))]
  ELSE LET p == find(hostport, 1, end, ":") IN
       IF p = 1 THEN [rejected |-> TRUE, host |-> <<>>]
       ELSE [rejected |-> FALSE, host |-> inp_strlower(SubSeq(hostport, 1, p - 1))]

(***************************************************************************)
(* match_downstream_addr_group (lines 1537-1579).                          *)
(***************************************************************************)
match_downstream_addr_group(hostport, raw_path, gs, catchAll) ==
  IF find(hostport, 1, Len(hostport) + 1, "/") # Len(hostport) + 1
  THEN catchAll
  ELSE IF hostport = <<>>
       THEN match_downstream_addr_group_host(hostport, path_span(raw_path), gs, catchAll)
       ELSE LET e == extract_host(hostport) IN
            IF e.rejected THEN catchAll
            ELSE match_downstream_addr_group_host(e.host, path_span(raw_path), gs, catchAll)

(***************************************************************************)
(* Table construction: parse_config_str_list (lines 245-265) and           *)
(* parse_mapping (lines 488-523).                                          *)
(***************************************************************************)
\* strchr(s, c): the position of the first c in s, 0 for nullptr.
strchr(s, c) ==
  LET p == find(s, 1, Len(s) + 1, c) IN IF p = Len(s) + 1 THEN 0 ELSE p

\* parse_config_str_list that makes no token of an empty string.
parse_config_str_list_skip_empty(s, delim) ==
  LET RECURSIVE split(_)
      split(r) == LET p == strchr(r, delim) IN
                  IF p = 0 THEN <<r>>
                  ELSE <<SubSeq(r, 1, p - 1)>> \o split(SubSeq(r, p + 1, Len(r)))
  IN IF s = <<>> THEN <<>> ELSE split(s)

RECURSIVE parse_config_str_list(_, _)
parse_config_str_list(s, delim) ==
  LET p == strchr(s, delim) IN
  IF p = 0 THEN <<s>>
  ELSE <<SubSeq(s, 1, p - 1)>> \o parse_config_str_list(SubSeq(s, p + 1, Len(s)), delim)

\* http2 eat_dir: drop the last directory of path.
eat_dir(path) ==
  IF path = <<>> THEN <<"/">>
  ELSE LET slashes(upto) == {i \in 1..upto : path[i] = "/"}
           rfind(upto) == IF slashes(upto) = {} THEN 0
                          ELSE CHOOSE i \in slashes(upto) : \A j \in slashes(upto) : j <= i
           p0 == IF path[Len(path)] # "/" THEN rfind(Len(path)) ELSE Len(path)
       IN IF p0 = 0 THEN <<"/">>
          ELSE IF p0 = 1 THEN path
          ELSE LET p1 == rfind(p0 - 1) IN
               IF p1 = 0 THEN <<"/">> ELSE SubSeq(path, 1, p1)

\* The position of the first character at or after first that is no '/'.
RECURSIVE skip_slashes(_, _)
skip_slashes(s, first) ==
  IF first <= Len(s) /\ s[first] = "/" THEN skip_slashes(s, first + 1) ELSE first

\* http2 path_join on an absolute path: the loop that removes the "." and
\* ".." segments and repeated slashes.
RECURSIVE path_join_loop(_, _, _)
path_join_loop(s, first, res) ==
  LET last == Len(s) + 1 IN
  IF first = last THEN res
  ELSE IF s[first] = "." /\ first + 1 = last THEN res
  ELSE IF s[first] = "." /\ s[first + 1] = "/" THEN path_join_loop(s, first + 2, res)
  ELSE IF s[first] = "." /\ s[first + 1] = "." /\ first + 2 = last THEN eat_dir(res)
  ELSE IF s[first] = "." /\ s[first + 1] = "." /\ s[first + 2] = "/"
       THEN path_join_loop(s, first + 3, eat_dir(res))
  ELSE LET slash == find(s, first, last, "/") IN
       IF slash = last THEN res \o SubSeq(s, first, last - 1)
       ELSE path_join_loop(s, skip_slashes(s, slash + 1), res \o SubSeq(s, first, slash))

\* http2::normalize_path on a path that starts with '/'.  The modelled
\* alphabet holds no '%', so the percent-decoding pass changes nothing.
normalize_path(s) == path_join_loop(s, 2, <<"/">>)

\* The pattern of one raw token with the case of its host kept.
normalize_pattern_keep_case(raw_pattern) ==
  LET slash == strchr(raw_pattern, "/") IN
  IF slash = 0
  THEN raw_pattern \o <<"/">>
  ELSE SubSeq(raw_pattern, 1, slash - 1)
         \o normalize_path(SubSeq(raw_pattern, slash, Len(raw_pattern)))

\* The pattern of one raw token with no "/" added to a token without one.
normalize_pattern_no_slash(raw_pattern) ==
  LET slash == strchr(raw_pattern, "/") IN
  IF slash = 0
  THEN inp_strlower(raw_pattern)
  ELSE inp_strlower(SubSeq(raw_pattern, 1, slash - 1))
         \o normalize_path(SubSeq(raw_pattern, slash, Len(raw_pattern)))

\* The pattern of one raw token (lines 493-507).
normalize_pattern(raw_pattern) ==
  LET slash == strchr(raw_pattern, "/") IN
  IF slash = 0
  THEN inp_strlower(raw_pattern) \o <<"/">>
  ELSE inp_strlower(SubSeq(raw_pattern, 1, slash - 1))
         \o normalize_path(SubSeq(raw_pattern, slash, Len(raw_pattern)))

\* The append for one pattern without the scan for an existing group.
add_to_group_always_append(gs, pattern, addr) ==
  Append(gs, Group(pattern, <<addr>>))

\* The scan and the append for one pattern, a merged address put at the
\* front of the pool.
add_to_group_push_front(gs, pattern, addr) ==
  IF \E i \in 1..Len(gs) : gs[i].pattern = pattern
  THEN LET i == CHOOSE k \in 1..Len(gs) :
                  gs[k].pattern = pattern /\ \A j \in 1..(k - 1) : gs[j].pattern # pattern
       IN [gs EXCEPT ![i].addrs = <<addr>> \o @]
  ELSE Append(gs, Group(pattern, <<addr>>))

\* The scan and the append for one pattern, a new group put at the front of
\* the table.
add_to_group_new_first(gs, pattern, addr) ==
  IF \E i \in 1..Len(gs) : gs[i].pattern = pattern
  THEN LET i == CHOOSE k \in 1..Len(gs) :
                  gs[k].pattern = pattern /\ \A j \in 1..(k - 1) : gs[j].pattern # pattern
       IN [gs EXCEPT ![i].addrs = Append(@, addr)]
  ELSE <<Group(pattern, <<addr>>)>> \o gs

\* The scan and the append for one pattern (lines 508-520).
add_to_group(gs, pattern, addr) ==
  IF \E i \in 1..Len(gs) : gs[i].pattern = pattern
  THEN LET i == CHOOSE k \in 1..Len(gs) :
                  gs[k].pattern = pattern /\ \A j \in 1..(k - 1) : gs[j].pattern # pattern
       IN [gs EXCEPT ![i].addrs = Append(@, addr)]
  ELSE Append(gs, Group(pattern, <<addr>>))

RECURSIVE parse_mapping_loop(_, _, _, _)
parse_mapping_loop(mapping, i, addr, gs) ==
  IF i > Len(mapping) THEN gs
  ELSE parse_mapping_loop(mapping, i + 1, addr,
                          add_to_group(gs, normalize_pattern(mapping[i]), addr))

\* parse_mapping that takes the whole pattern list as one token.
parse_mapping_no_split(addr, src, gs) ==
  parse_mapping_loop(<<src>>, 1, addr, gs)

parse_mapping(addr, src, gs) ==
  parse_mapping_loop(parse_config_str_list(src, ":"), 1, addr, gs)

(***************************************************************************)
(* The program: backend directives build the table, the catch-all group is *)
(* designated, and requests are routed against the finished table.         *)
(***************************************************************************)
Addrs == {1, 2}

\* The pattern lists of the backend directives.
Srcs ==
  { <<>>,
    <<"a", ":", "/", "a", "/", ":">>,
    <<"A", "/", "a">>,
    <<"/", "a", "/">>,
    <<"B", ":", "/", "a">>,
    <<"/", "a", "/", ".", ".", "/", "a", "/", ".", "/">> }

ReqHostports ==
  { <<>>, <<"a">>, <<"A">>, <<"B", ":", "8">>, <<"c">>, <<":", "8">> }

ReqPaths ==
  { <<>>, <<"/">>, <<"/", "a">>, <<"/", "a", "/", "a">> }

NoCall == [op |-> "none"]

Init ==
  /\ groups = <<>>
  /\ catch_all = 0
  /\ reader = NoReader
  /\ stack = <<>>
  /\ included_set = {}
  /\ phase = "build"
  /\ directives = <<>>
  /\ call = NoCall

\* A backend directive reaches parse_mapping (line 559).
AddMapping(addr, src) ==
  /\ phase = "build"
  /\ Len(directives) < MaxDirectives
  /\ groups' = parse_mapping(addr, src, groups)
  /\ directives' = Append(directives, [addr |-> addr, src |-> src])
  /\ call' = [op |-> "parse_mapping", addr |-> addr, src |-> src]
  /\ UNCHANGED <<catch_all, phase, reader, stack, included_set>>

\* The zero-based indices of the groups whose pattern is exactly "/".
CatchAllIndices(gs) == {i \in 0..(Len(gs) - 1) : gs[i + 1].pattern = <<"/">>}

\* Parsing is complete: the group whose pattern is "/" becomes the catch-all
\* and the table is frozen.  Without such a group no request is served.
DesignateCatchAll ==
  /\ phase = "build"
  /\ CatchAllIndices(groups) # {}
  /\ catch_all' = CHOOSE i \in CatchAllIndices(groups) :
                    \A j \in CatchAllIndices(groups) : j <= i
  /\ phase' = "serve"
  /\ call' = NoCall
  /\ UNCHANGED <<groups, directives, reader, stack, included_set>>

\* A request is routed against the frozen table.
Route(hostport, raw_path) ==
  /\ phase = "serve"
  /\ call' = [op |-> "route", hostport |-> hostport, raw_path |-> raw_path,
              ret |-> match_downstream_addr_group(hostport, raw_path, groups, catch_all)]
  /\ UNCHANGED <<groups, catch_all, phase, directives, reader, stack, included_set>>

Next ==
  \/ \E addr \in Addrs, src \in Srcs : AddMapping(addr, src)
  \/ DesignateCatchAll
  \/ \E hostport \in ReqHostports, raw_path \in ReqPaths : Route(hostport, raw_path)

Spec == Init /\ [][Next]_vars

(***************************************************************************)
(* Specification of match_downstream_addr_group as a pure function: the    *)
(* table and its catch-all index are drawn from RouteTables, hostport and  *)
(* raw_path from all strings up to MaxHostport and MaxRawPath.             *)
(***************************************************************************)
HostportChars == {"A", ":", "[", "]", "/"}
RawPathChars == {"/", "a", "?", "#"}

Table(patterns, catchAll) ==
  [groups |-> [i \in 1..Len(patterns) |-> Group(patterns[i], <<1>>)],
   catch_all |-> catchAll]

RouteTables ==
  { Table(<< <<"/">>, <<"a", "/">>, <<"/", "a", "/">>, <<"a", "/", "a">> >>, 0),
    Table(<< <<"[", ":", "]", "/">>, <<"/", "a">>, <<"/">>, <<"[", "a", "]", "/">> >>, 2) }

InitRoute ==
  /\ \E t \in RouteTables : groups = t.groups /\ catch_all = t.catch_all
  /\ phase = "route"
  /\ directives = <<>>
  /\ reader = NoReader
  /\ stack = <<>>
  /\ included_set = {}
  /\ \E hostport \in Str(HostportChars, 0, MaxHostport),
        raw_path \in Str(RawPathChars, 0, MaxRawPath) :
       call = [op |-> "args", hostport |-> hostport, raw_path |-> raw_path, ret |-> -1]

RouteCall ==
  /\ phase = "route"
  /\ call.op = "args"
  /\ call' = [call EXCEPT !.op = "route",
                          !.ret = match_downstream_addr_group(
                                    call.hostport, call.raw_path, groups, catch_all)]
  /\ UNCHANGED <<groups, catch_all, phase, directives, reader, stack, included_set>>

NextRoute == RouteCall

SpecRoute == InitRoute /\ [][NextRoute]_vars

(***************************************************************************)
(* Claims about the router.                                                *)
(***************************************************************************)
\* Whether s holds the character c.
Contains(s, c) == \E i \in 1..Len(s) : s[i] = c

\* Whether the router takes a host from hostport: the empty hostport is used
\* as the empty host, any other goes through the extraction.
Accepted(hostport) ==
  /\ ~Contains(hostport, "/")
  /\ hostport # <<>> => ~extract_host(hostport).rejected

\* The host the router matches an accepted hostport with.
HostOf(hostport) == IF hostport = <<>> THEN <<>> ELSE extract_host(hostport).host

\* C1: route returns a valid zero-based index into the table for every
\* request; "no match" (-1) never reaches the caller.
C1_ValidIndex ==
  call.op = "route" => call.ret \in 0..(Len(groups) - 1)

\* A request with an accepted host that no pattern matches was routed to the
\* catch-all group of a table of several groups.
C1_Witness ==
  /\ call.op = "route"
  /\ Len(groups) >= 2
  /\ Accepted(call.hostport)
  /\ match(HostOf(call.hostport), <<"/">>, groups) = -1
  /\ path_span(call.raw_path) = <<>>
  /\ call.ret = catch_all

\* C5: for an accepted host and a matchable path that starts with '/', route
\* returns the host-specific match if there is one, else the host-agnostic
\* match if there is one, else catch_all.
C5_TierOrder ==
  (/\ call.op = "route"
   /\ Accepted(call.hostport)
   /\ path_span(call.raw_path) # <<>>
   /\ path_span(call.raw_path)[1] = "/")
    => LET host == HostOf(call.hostport)
           path == path_span(call.raw_path)
           primary == match(host, path, groups)
           agnostic == match(<<>>, path, groups)
       IN call.ret = IF primary # -1 THEN primary
                     ELSE IF agnostic # -1 THEN agnostic
                     ELSE catch_all

\* A host-specific match was returned although a longer host-agnostic pattern
\* matches the path too.
C5_Witness ==
  /\ call.op = "route"
  /\ Accepted(call.hostport)
  /\ HostOf(call.hostport) # <<>>
  /\ path_span(call.raw_path) # <<>>
  /\ path_span(call.raw_path)[1] = "/"
  /\ LET path == path_span(call.raw_path)
         primary == match(HostOf(call.hostport), path, groups)
         agnostic == match(<<>>, path, groups)
     IN /\ primary # -1
        /\ agnostic # -1
        /\ call.ret = primary
        /\ Len(groups[agnostic + 1].pattern) > Len(groups[primary + 1].pattern)

\* The hostports the host extraction rejects, as the claim lists them.
Rejected(hostport) ==
  \/ Contains(hostport, "/")
  \/ /\ hostport # <<>>
     /\ hostport[1] = "["
     /\ ~Contains(hostport, "]")
  \/ /\ hostport # <<>>
     /\ hostport[1] = "["
     /\ \E p \in 1..(Len(hostport) - 1) :
          /\ hostport[p] = "]"
          /\ \A j \in 1..(p - 1) : hostport[j] # "]"
          /\ hostport[p + 1] # ":"
  \/ /\ hostport # <<>>
     /\ hostport[1] = ":"

\* C6: a rejected hostport routes to catch_all whatever the path and the
\* table are, and the rejected hostports are those the claim lists.
C6_RejectToCatchAll ==
  call.op = "route" =>
    /\ Rejected(call.hostport) => call.ret = catch_all
    /\ Rejected(call.hostport) <=> ~Accepted(call.hostport)

\* A rejected hostport was routed to catch_all although a host-agnostic
\* pattern other than the catch-all matches the path.
C6_Witness ==
  /\ call.op = "route"
  /\ Rejected(call.hostport)
  /\ ~Contains(call.hostport, "/")
  /\ match(<<>>, path_span(call.raw_path), groups) \notin {-1, catch_all}
  /\ call.ret = catch_all

\* C7: when the matchable path is empty or does not start with '/', the
\* result is the match of (host, "/") if there is one and catch_all
\* otherwise, whatever raw_path holds.
C7_AuthorityForm ==
  (/\ call.op = "route"
   /\ Accepted(call.hostport)
   /\ \/ path_span(call.raw_path) = <<>>
      \/ path_span(call.raw_path)[1] # "/")
    => LET group == match(HostOf(call.hostport), <<"/">>, groups) IN
       call.ret = IF group # -1 THEN group ELSE catch_all

\* A request whose path lacks the leading '/' was routed by its host alone
\* although a pattern matches its host and path as such.
C7_Witness ==
  /\ call.op = "route"
  /\ Accepted(call.hostport)
  /\ path_span(call.raw_path) # <<>>
  /\ path_span(call.raw_path)[1] # "/"
  /\ match(HostOf(call.hostport), path_span(call.raw_path), groups)
       \notin {-1, call.ret}

\* The tokens of the directives processed so far.
Tokens ==
  UNION { {m[i] : i \in 1..Len(m)} :
          m \in {parse_config_str_list(directives[k].src, ":") :
                 k \in 1..Len(directives)} }

\* The host part of a raw token: the text before its first '/'.
TokenHost(t) == IF strchr(t, "/") = 0 THEN t ELSE SubSeq(t, 1, strchr(t, "/") - 1)

\* The path part of a raw token, normalised; "/" when the token has none.
TokenPath(t) ==
  IF strchr(t, "/") = 0 THEN <<"/">>
  ELSE normalize_path(SubSeq(t, strchr(t, "/"), Len(t)))

\* C8: host matching is case-insensitive on both sides: a hostport routes as
\* its lowercase form does, and every token's pattern is registered with a
\* lowercase host, so that the lowercase host with the token's path matches it.
C8_CaseInsensitive ==
  /\ call.op = "route" =>
       call.ret = match_downstream_addr_group(
                    inp_strlower(call.hostport), call.raw_path, groups, catch_all)
  /\ \A t \in Tokens :
       \E i \in 1..Len(groups) :
         /\ groups[i].pattern = inp_strlower(TokenHost(t)) \o TokenPath(t)
         /\ path_match(groups[i].pattern, inp_strlower(TokenHost(t)), TokenPath(t))

\* A request with an uppercase host was routed to the group of a pattern
\* that a token with an uppercase host registered.
C8_Witness ==
  /\ call.op = "route"
  /\ call.hostport # inp_strlower(call.hostport)
  /\ call.ret # catch_all
  /\ \E t \in Tokens :
       /\ TokenHost(t) # inp_strlower(TokenHost(t))
       /\ groups[call.ret + 1].pattern = inp_strlower(TokenHost(t)) \o TokenPath(t)

\* raw_path up to its first '?' or '#'.
CutQueryFragment(raw_path) ==
  LET marks == {i \in 1..Len(raw_path) : raw_path[i] \in {"?", "#"}} IN
  IF marks = {} THEN raw_path
  ELSE SubSeq(raw_path, 1, (CHOOSE i \in marks : \A j \in marks : i <= j) - 1)

\* C9: a request routes as the same request whose path is cut at the first
\* '?' or '#': a query or a fragment after the path changes nothing.
C9_QueryFragmentIgnored ==
  call.op = "route" =>
    call.ret = match_downstream_addr_group(
                 call.hostport, CutQueryFragment(call.raw_path), groups, catch_all)

\* A path followed by a '#' was routed to the group of the exact pattern of
\* the bare path.
C9_Witness ==
  /\ call.op = "route"
  /\ Len(call.raw_path) = 3
  /\ call.raw_path[3] = "#"
  /\ CutQueryFragment(call.raw_path) = <<"/", "a">>
  /\ call.ret # catch_all
  /\ groups[call.ret + 1].pattern = <<"/", "a">>

Ports == { <<>>, <<"8">> }

\* The text of hostport before its first ':' (all of it without ':').
BeforeColon(hostport) ==
  LET colons == {i \in 1..Len(hostport) : hostport[i] = ":"} IN
  IF colons = {} THEN hostport
  ELSE SubSeq(hostport, 1, (CHOOSE i \in colons : \A j \in colons : i <= j) - 1)

\* The text of hostport up to and including its first ']'.
UpToBracket(hostport) ==
  LET bs == {i \in 1..Len(hostport) : hostport[i] = "]"} IN
  SubSeq(hostport, 1, CHOOSE i \in bs : \A j \in bs : i <= j)

\* C10 as stated: appending ":port" to any hostport leaves the route unchanged.
C10_PortDroppedAlways ==
  call.op = "route" =>
    \A port \in Ports :
      match_downstream_addr_group(
        call.hostport \o <<":">> \o port, call.raw_path, groups, catch_all) = call.ret

\* C10, amended: the extracted host is the text before the first ':' or the
\* bracketed literal up to and including ']'; appending ":port" to a
\* non-empty hostport leaves the route unchanged; and a bracketed host with
\* a port resolves to the group of the one pattern registered under it.
C10_PortDropped ==
  call.op = "route" =>
    /\ (Accepted(call.hostport) /\ call.hostport # <<>>) =>
         HostOf(call.hostport) =
           inp_strlower(IF call.hostport[1] = "[" THEN UpToBracket(call.hostport)
                        ELSE BeforeColon(call.hostport))
    /\ call.hostport # <<>> =>
         \A port \in Ports :
           match_downstream_addr_group(
             call.hostport \o <<":">> \o port, call.raw_path, groups, catch_all)
             = call.ret
    /\ \A port \in Ports : \A i \in 1..Len(groups) :
         (/\ call.hostport # <<>>
          /\ call.hostport[1] = "["
          /\ call.hostport[Len(call.hostport)] = "]"
          /\ Accepted(call.hostport)
          /\ path_span(call.raw_path) # <<>>
          /\ path_span(call.raw_path)[1] = "/"
          /\ groups[i].pattern = inp_strlower(call.hostport) \o <<"/">>
          /\ \A j \in 1..Len(groups) :
               j # i => ~HasPrefix(groups[j].pattern, inp_strlower(call.hostport)))
           => match_downstream_addr_group(
                call.hostport \o <<":">> \o port, call.raw_path, groups, catch_all)
                = i - 1

\* A bracketed literal that holds a ':' was routed, for a path that starts
\* with '/', to the group registered under it, which is not the catch-all.
C10_Witness ==
  /\ call.op = "route"
  /\ call.hostport = <<"[", ":", "]">>
  /\ path_span(call.raw_path) # <<>>
  /\ path_span(call.raw_path)[1] = "/"
  /\ call.ret # catch_all
  /\ groups[call.ret + 1].pattern = <<"[", ":", "]", "/">>

(***************************************************************************)
(* Claims about the construction of the table, checked under Spec.         *)
(***************************************************************************)

\* C11: after any sequence of backend directives the patterns of the groups
\* are pairwise distinct: no two groups of the table share a pattern.
C11_UniquePatterns ==
  \A i, j \in 1..Len(groups) :
    groups[i].pattern = groups[j].pattern => i = j

\* Two directives were processed, a token of the second normalised to a
\* pattern the first had registered, and the table holds one group for it.
C11_Witness ==
  /\ Len(directives) = 2
  /\ call.op = "parse_mapping"
  /\ \E i \in 1..Len(groups) :
       /\ Len(groups[i].addrs) >= 2
       /\ \E t \in Tokens : t # groups[i].pattern /\ normalize_pattern(t) = groups[i].pattern

\* The tokens of the directives processed so far, in directive order and then
\* token order, each with the address of its directive.
RECURSIVE TokenSeq(_)
TokenSeq(ds) ==
  IF ds = <<>> THEN <<>>
  ELSE LET d == ds[Len(ds)]
           m == parse_config_str_list(d.src, ":")
       IN TokenSeq(SubSeq(ds, 1, Len(ds) - 1))
            \o [i \in 1..Len(m) |-> [token |-> m[i], addr |-> d.addr]]

\* The addresses of the tokens of ts that normalise to pattern, in order.
RECURSIVE PoolOf(_, _)
PoolOf(ts, pattern) ==
  IF ts = <<>> THEN <<>>
  ELSE LET rest == PoolOf(SubSeq(ts, 1, Len(ts) - 1), pattern)
           t == ts[Len(ts)]
       IN IF normalize_pattern(t.token) = pattern THEN Append(rest, t.addr) ELSE rest

\* C12: for every normalised pattern of a processed token there is exactly
\* one group, and its pool is the sequence of the addresses of all the tokens
\* that normalise to that pattern, in directive order and then token order;
\* and every group is the group of such a pattern.
C12_PoolOrder ==
  LET ts == TokenSeq(directives) IN
  /\ \A k \in 1..Len(ts) :
       LET pattern == normalize_pattern(ts[k].token) IN
       /\ Cardinality({i \in 1..Len(groups) : groups[i].pattern = pattern}) = 1
       /\ \A i \in 1..Len(groups) :
            groups[i].pattern = pattern => groups[i].addrs = PoolOf(ts, pattern)
  /\ \A i \in 1..Len(groups) :
       \E k \in 1..Len(ts) : normalize_pattern(ts[k].token) = groups[i].pattern

\* Two directives with different addresses were processed: one group's pool
\* holds both addresses in the order of the directives, and another group
\* holds only the address of the second directive.
C12_Witness ==
  /\ Len(directives) = 2
  /\ directives[1].addr # directives[2].addr
  /\ \E i, j \in 1..Len(groups) :
       /\ groups[i].addrs = <<directives[1].addr, directives[2].addr>>
       /\ groups[j].addrs = <<directives[2].addr>>

\* C13: after any non-empty sequence of backend directives the table holds a
\* fallback group for the catch-all index to designate: a group whose pattern
\* is exactly "/", also when no directive named the root pattern.
C13_FallbackGroup ==
  directives # <<>> => CatchAllIndices(groups) # {}

\* The table the directives ds build from the empty table.
RECURSIVE BuildTable(_)
BuildTable(ds) ==
  IF ds = <<>> THEN <<>>
  ELSE parse_mapping(ds[Len(ds)].addr, ds[Len(ds)].src,
                     BuildTable(SubSeq(ds, 1, Len(ds) - 1)))

\* The hosts and paths the router hands to match for the modelled requests.
RoutedHosts == {<<>>} \cup {HostOf(hostport) : hostport \in {h \in ReqHostports : Accepted(h)}}
RoutedPaths == {<<"/">>} \cup {path_span(raw_path) : raw_path \in ReqPaths}

\* The addresses of a pool, without their order.
PoolSet(addrs) == {addrs[a] : a \in 1..Len(addrs)}

\* C19: on a table with pairwise distinct patterns no two different groups
\* whose patterns both match a host and path have patterns of equal length,
\* so the tie-break of match is not exercised on a built table, and the
\* group a request is routed to does not depend on the order in which the
\* directives were processed.
C19_OrderIndependent ==
  /\ (\A i, j \in 1..Len(groups) : i # j => groups[i].pattern # groups[j].pattern)
       => \A host \in RoutedHosts, path \in RoutedPaths :
            \A i, j \in Matching(host, path, groups) :
              i # j => Len(groups[i + 1].pattern) # Len(groups[j + 1].pattern)
  /\ call.op = "route"
       => \A perm \in Permutations(1..Len(directives)) :
            LET gs == BuildTable([k \in 1..Len(directives) |-> directives[perm[k]]])
                catchAll == CHOOSE i \in CatchAllIndices(gs) :
                              \A j \in CatchAllIndices(gs) : j <= i
                ret == match_downstream_addr_group(call.hostport, call.raw_path, gs, catchAll)
            IN /\ gs[ret + 1].pattern = groups[call.ret + 1].pattern
               /\ PoolSet(gs[ret + 1].addrs) = PoolSet(groups[call.ret + 1].addrs)

\* A request matched two groups, with patterns of different length, and was
\* routed to a group that sits at another index when the two directives are
\* processed in the other order.
C19_Witness ==
  /\ call.op = "route"
  /\ Len(directives) = 2
  /\ Accepted(call.hostport)
  /\ Cardinality(Matching(HostOf(call.hostport), path_span(call.raw_path), groups)) >= 2
  /\ call.ret \in Matching(HostOf(call.hostport), path_span(call.raw_path), groups)
  /\ LET gs == BuildTable(<<directives[2], directives[1]>>) IN
     \E i \in 1..Len(gs) :
       gs[i].pattern = groups[call.ret + 1].pattern /\ i # call.ret + 1

(***************************************************************************)
(* The configuration object (lines 66-74).  create_config stores a new     *)
(* Config in the global pointer; get_config and mod_config both return     *)
(* that pointer, so the table parse_mapping fills through mod_config is    *)
(* the table a request handler reaches through get_config.                 *)
(***************************************************************************)
ConfigSrcs == { <<>>, <<"A", "/", "a">> }
ConfigHostports == { <<"a">> }
ConfigPaths == { <<"/">>, <<"/", "a">> }

\* A request handler takes the pointer get_config returns (line 70).
GetConfig ==
  /\ reader.ref # "config"
  /\ reader' = [ref |-> "config", seen |-> groups]
  /\ call' = [op |-> "get_config"]
  /\ UNCHANGED <<groups, catch_all, phase, directives, stack, included_set>>

\* A reconfiguration: create_config points the global at a new, empty Config
\* (line 74).  A handler that still holds the replaced object keeps it.
CreateConfig ==
  /\ phase = "serve"
  /\ groups' = <<>>
  /\ catch_all' = 0
  /\ phase' = "build"
  /\ directives' = <<>>
  /\ call' = [op |-> "create_config"]
  /\ reader' = IF reader.ref = "config" THEN [reader EXCEPT !.ref = "stale"] ELSE reader
  /\ UNCHANGED <<stack, included_set>>

\* The handler routes a request through the pointer it holds: it reads the
\* table as it is now.
ReaderRoute(hostport, raw_path) ==
  /\ reader.ref = "config"
  /\ call' = [op |-> "route", hostport |-> hostport, raw_path |-> raw_path,
              ret |-> match_downstream_addr_group(hostport, raw_path, groups, catch_all)]
  /\ UNCHANGED <<groups, catch_all, phase, directives, reader, stack, included_set>>

NextConfig ==
  \/ \E addr \in Addrs, src \in ConfigSrcs : AddMapping(addr, src)
  \/ DesignateCatchAll
  \/ GetConfig
  \/ CreateConfig
  \/ \E hostport \in ConfigHostports, raw_path \in ConfigPaths : ReaderRoute(hostport, raw_path)

SpecConfig == Init /\ [][NextConfig]_vars

\* C14: a request routed while a configuration is built or reloaded never
\* observes a partially built table: the table behind a pointer a handler
\* holds is never changed in place, and a request is only ever routed
\* against a table whose construction is complete.
C14_NoPartialTable ==
  /\ reader.ref = "config" => groups = reader.seen
  /\ call.op = "route" => phase = "serve"

\* C15: every group's pattern is non-empty, contains a '/', and the part
\* before its first '/' is lowercase; so the matcher's pattern.back() and its
\* assertion that the pattern is not empty hold on every built table.
C15_PatternShape ==
  \A i \in 1..Len(groups) :
    LET pattern == groups[i].pattern
        slash == strchr(pattern, "/")
    IN /\ pattern # <<>>
       /\ slash # 0
       /\ \A k \in 1..(slash - 1) : lowcase(pattern[k]) = pattern[k]

\* The table holds the group of an empty token and the group of a token that
\* has an uppercase host and no '/'.
C15_Witness ==
  /\ call.op = "parse_mapping"
  /\ <<>> \in Tokens
  /\ \E t \in Tokens :
       /\ strchr(t, "/") = 0
       /\ \E k \in 1..Len(t) : lowcase(t[k]) # t[k]
       /\ \E i \in 1..Len(groups) : groups[i].pattern = inp_strlower(t) \o <<"/">>
  /\ \E i \in 1..Len(groups) : groups[i].pattern = <<"/">>

\* s is a prefix of t.
IsPrefix(s, t) == Len(s) <= Len(t) /\ SubSeq(t, 1, Len(s)) = s

\* The position in ts of the first token that normalises to pattern, 0 when
\* there is none.
FirstAppearance(ts, pattern) ==
  IF \E k \in 1..Len(ts) : normalize_pattern(ts[k].token) = pattern
  THEN CHOOSE k \in 1..Len(ts) :
         /\ normalize_pattern(ts[k].token) = pattern
         /\ \A j \in 1..(k - 1) : normalize_pattern(ts[j].token) # pattern
  ELSE 0

\* Groups are ordered by the first appearance of their pattern across all
\* directives.
OrderedByFirstAppearance ==
  LET ts == TokenSeq(directives) IN
  \A i, j \in 1..Len(groups) :
    i < j => /\ FirstAppearance(ts, groups[i].pattern) > 0
             /\ FirstAppearance(ts, groups[i].pattern)
                  < FirstAppearance(ts, groups[j].pattern)

\* One step leaves every existing group at its index with its pattern, removes
\* no group and no address, and puts every new group after the existing ones
\* with a pattern the table did not hold.
TableGrows ==
  /\ Len(groups') >= Len(groups)
  /\ \A i \in 1..Len(groups) :
       /\ groups'[i].pattern = groups[i].pattern
       /\ IsPrefix(groups[i].addrs, groups'[i].addrs)
  /\ \A j \in (Len(groups) + 1)..Len(groups') :
       \A i \in 1..Len(groups) : groups'[j].pattern # groups[i].pattern

\* C16: during the build phase the table only grows: every directive leaves
\* the index and pattern of every existing group unchanged, removes no group
\* and no address, and appends each unseen pattern at the end, so groups are
\* ordered by first appearance of their pattern across all directives.
C16_TableOnlyGrows ==
  /\ []OrderedByFirstAppearance
  /\ [][TableGrows]_vars

\* The second directive added an address to the first group, which kept its
\* place, and appended a group for a pattern the first directive did not name.
C16_Witness ==
  /\ Len(directives) = 2
  /\ call.op = "parse_mapping"
  /\ Len(groups) >= 3
  /\ Len(groups[1].addrs) >= 2
  /\ LET first == parse_mapping(directives[1].addr, directives[1].src, <<>>) IN
     /\ Len(first) < Len(groups)
     /\ \A i \in 1..Len(first) : groups[i].pattern = first[i].pattern

(***************************************************************************)
(* The backend directive: parse_config splits its argument at the first    *)
(* ';' into the address and the pattern list, checks the address with      *)
(* split_host_port and hands both to parse_mapping (lines 104-130 and      *)
(* 531-562).  The argument is a NUL-terminated string: position Len + 1    *)
(* holds the terminator.                                                   *)
(***************************************************************************)
NI_MAXHOST == 1025

SHRPX_UNIX_PATH_PREFIX == <<"u", "n", "i", "x", ":">>

\* util::istartsWith: startsWith without regard to ASCII case.
istartsWith(s, prefix) ==
  /\ Len(s) >= Len(prefix)
  /\ inp_strlower(SubSeq(s, 1, Len(prefix))) = inp_strlower(prefix)

DigitChars == <<"0", "1", "2", "3", "4", "5", "6", "7", "8", "9">>

IsDigit(c) == \E d \in 1..Len(DigitChars) : DigitChars[d] = c

DigitValue(c) == (CHOOSE d \in 1..Len(DigitChars) : DigitChars[d] = c) - 1

\* The position behind the digits that start at position i.
RECURSIVE digits_end(_, _)
digits_end(s, i) ==
  IF i <= Len(s) /\ IsDigit(s[i]) THEN digits_end(s, i + 1) ELSE i

\* A decimal numeral without its leading zeros; <<>> is zero.  Numbers that
\* need 64 bits are kept as numerals.
RECURSIVE strip_zeros(_)
strip_zeros(d) ==
  IF d # <<>> /\ d[1] = "0" THEN strip_zeros(Tail(d)) ELSE d

\* a < b for two numerals without leading zeros.
DecLess(a, b) ==
  \/ Len(a) < Len(b)
  \/ /\ Len(a) = Len(b)
     /\ \E k \in 1..Len(a) :
          /\ SubSeq(a, 1, k - 1) = SubSeq(b, 1, k - 1)
          /\ DigitValue(a[k]) < DigitValue(b[k])

\* std::numeric_limits<int64_t>::max().
INT64_MAX ==
  <<"9", "2", "2", "3", "3", "7", "2", "0", "3", "6", "8", "5", "4", "7",
    "7", "5", "8", "0", "7">>

\* The number that stands for every number from 10^9 on: the largest
\* integer here.  The callers of util::parse_uint only compare its result
\* with the largest port.
TooBig == 2147483647

\* The loop of util::parse_uint over len characters from position i.  A
\* negative len stands for the size_t value 2^64 + len: the count does not
\* run out before the terminator is read, and the terminator is no digit.
RECURSIVE parse_uint_loop(_, _, _, _)
parse_uint_loop(s, i, len, n) ==
  IF len = 0 THEN n
  ELSE IF i > Len(s) THEN -1
  ELSE IF IsDigit(s[i])
  THEN parse_uint_loop(s, i + 1, len - 1,
                       IF n > 99999999 THEN TooBig ELSE n * 10 + DigitValue(s[i]))
  ELSE -1

\* util::parse_uint(s + first, len): the number, -1 when len is 0, a
\* character is not a digit or the number is above the largest int64_t.
parse_uint(s, first, len) ==
  IF len = 0 THEN -1
  ELSE CHOOSE d \in
         { IF n = TooBig
              /\ DecLess(INT64_MAX, strip_zeros(SubSeq(s, first, first + len - 1)))
           THEN -1 ELSE n :
           n \in {parse_uint_loop(s, first, len, 0)} } : TRUE

\* What a call leaves behind: it returned ret, or an exception left it.
Returned(ret) == [outcome |-> "return", ret |-> ret]
Thrown(what) == [outcome |-> "throw", what |-> what]

\* split_host_port (lines 104-130) on the buffer hostport, of which the
\* first hostportlen characters are the address.  strchr searches the whole
\* buffer, so the ',' it finds may lie behind the address; portlen then wraps
\* around (a negative number here), parse_uint fails at the terminator, and
\* the operand std::string(p + 1, portlen) of the error message throws
\* std::length_error when the logger evaluates it (log).
split_host_port(hostlen, hostport, hostportlen, log) ==
  LET p == strchr(hostport, ",") IN
  IF p = 0 THEN Returned(-1)
  ELSE LET len == p - 1
           portlen == hostportlen - len - 1
           d == parse_uint(hostport, p + 1, portlen)
       IN IF hostlen < len + 1 THEN Returned(-1)
          ELSE IF 1 <= d /\ d <= 65535
               THEN [outcome |-> "return", ret |-> 0,
                     host |-> SubSeq(hostport, 1, len), port |-> d]
          ELSE IF log /\ portlen < 0 THEN Thrown("length_error")
          ELSE Returned(-1)

\* The backend branch of parse_config without the check for ';' in the
\* pattern list.
parse_config_backend_any_pattern(optarg, gs, log) ==
  LET optarglen == Len(optarg)
      semi == strchr(optarg, ";")
      pat_delim == IF semi = 0 THEN optarglen + 1 ELSE semi
      unix == istartsWith(optarg, SHRPX_UNIX_PATH_PREFIX)
      split == split_host_port(NI_MAXHOST, optarg, pat_delim - 1, log)
      addr == IF unix
              THEN [host |-> SubSeq(optarg, Len(SHRPX_UNIX_PATH_PREFIX) + 1, pat_delim - 1),
                    port |-> 0, host_unix |-> TRUE]
              ELSE [host |-> split.host, port |-> split.port, host_unix |-> FALSE]
      mapping == IF pat_delim < optarglen + 1
                 THEN SubSeq(optarg, pat_delim + 1, optarglen) ELSE <<>>
  IN IF ~unix /\ split.outcome = "throw" THEN split @@ [groups |-> gs]
     ELSE IF ~unix /\ split.ret = -1 THEN Returned(-1) @@ [groups |-> gs]
     ELSE [outcome |-> "return", ret |-> 0, addr |-> addr, mapping |-> mapping,
           groups |-> parse_mapping(addr, mapping, gs)]

\* The backend branch of parse_config (lines 531-562): the outcome and the
\* table it leaves; addr and mapping are what it handed to parse_mapping.  A
\* unix address carries no port: port stays at the value the DownstreamAddr
\* constructor gave it, taken to be 0.
parse_config_backend(optarg, gs, log) ==
  LET optarglen == Len(optarg)
      semi == strchr(optarg, ";")
      pat_delim == IF semi = 0 THEN optarglen + 1 ELSE semi
      unix == istartsWith(optarg, SHRPX_UNIX_PATH_PREFIX)
      split == split_host_port(NI_MAXHOST, optarg, pat_delim - 1, log)
      addr == IF unix
              THEN [host |-> SubSeq(optarg, Len(SHRPX_UNIX_PATH_PREFIX) + 1, pat_delim - 1),
                    port |-> 0, host_unix |-> TRUE]
              ELSE [host |-> split.host, port |-> split.port, host_unix |-> FALSE]
      mapping == IF pat_delim < optarglen + 1
                 THEN SubSeq(optarg, pat_delim + 1, optarglen) ELSE <<>>
  IN IF ~unix /\ split.outcome = "throw" THEN split @@ [groups |-> gs]
     ELSE IF ~unix /\ split.ret = -1 THEN Returned(-1) @@ [groups |-> gs]
     ELSE IF strchr(mapping, ";") # 0 THEN Returned(-1) @@ [groups |-> gs]
     ELSE [outcome |-> "return", ret |-> 0, addr |-> addr, mapping |-> mapping,
           groups |-> parse_mapping(addr, mapping, gs)]

\* n times the character c.
Repeat(c, n) == [i \in 1..n |-> c]

\* The arguments of the backend directives: "h,8", "h,8;", "H,8;A",
\* "h,8;a/:A", "h,8;[::1]/x", "h;a", "h;a,8", "h,0;a", "h,65536",
\* "h,65535;/a", "h,;a", "h,8;a;", "unix:/p;a", "Unix:p;a;b", ",8;/a",
\* "h,8x", and two with a host of NI_MAXHOST - 1 and of NI_MAXHOST characters.
BackendArgs ==
  { <<"h", ",", "8">>,
    <<"h", ",", "8", ";">>,
    <<"H", ",", "8", ";", "A">>,
    <<"h", ",", "8", ";", "a", "/", ":", "A">>,
    <<"h", ",", "8", ";", "[", ":", ":", "1", "]", "/", "x">>,
    <<"h", ";", "a">>,
    <<"h", ";", "a", ",", "8">>,
    <<"h", ",", "0", ";", "a">>,
    <<"h", ",", "6", "5", "5", "3", "6">>,
    <<"h", ",", "6", "5", "5", "3", "5", ";", "/", "a">>,
    <<"h", ",", ";", "a">>,
    <<"h", ",", "8", ";", "a", ";">>,
    <<"u", "n", "i", "x", ":", "/", "p", ";", "a">>,
    <<"U", "n", "i", "x", ":", "p", ";", "a", ";", "b">>,
    <<",", "8", ";", "/", "a">>,
    <<"h", ",", "8", "x">>,
    Repeat("h", NI_MAXHOST - 1) \o <<",", "8">>,
    Repeat("h", NI_MAXHOST) \o <<",", "8">> }

\* parse_config is called for one backend directive.  An exception that
\* leaves parse_config is caught nowhere under src/: the program ends.
ParseConfigBackend(optarg, log) ==
  /\ phase = "build"
  /\ Len(directives) < MaxDirectives
  /\ LET r == parse_config_backend(optarg, groups, log) IN
     /\ groups' = r.groups
     /\ directives' = IF r.outcome = "return" /\ r.ret = 0
                      THEN Append(directives, [addr |-> r.addr, src |-> r.mapping])
                      ELSE directives
     /\ phase' = IF r.outcome = "throw" THEN "terminated" ELSE phase
     /\ call' = [op |-> "parse_config", optarg |-> optarg, before |-> groups,
                 result |-> IF r.outcome = "throw" THEN Thrown(r.what) ELSE Returned(r.ret)]
  /\ UNCHANGED <<catch_all, reader, stack, included_set>>

NextBackend == \E optarg \in BackendArgs, log \in BOOLEAN : ParseConfigBackend(optarg, log)

SpecBackend == Init /\ [][NextBackend]_vars

(***************************************************************************)
(* Claims about the backend directive, checked under SpecBackend.          *)
(***************************************************************************)

\* The pattern list of a backend argument is empty: there is no ';', or
\* nothing follows it.
EmptyPatternList(optarg) == strchr(optarg, ";") \in {0, Len(optarg)}

\* C17: a token without '/' becomes lowercase(token) + "/" and the empty
\* token becomes "/"; a pattern list is always split into at least one token,
\* so a directive with an empty pattern list, or with none after ';',
\* registers its address under "/"; and a bare host token X lands in the
\* group of the token X + "/".
C17_ImplicitSlash ==
  LET ts == TokenSeq(directives) IN
  /\ \A k \in 1..Len(ts) :
       strchr(ts[k].token, "/") = 0 =>
         /\ normalize_pattern(ts[k].token) = inp_strlower(ts[k].token) \o <<"/">>
         /\ normalize_pattern(ts[k].token) = normalize_pattern(ts[k].token \o <<"/">>)
         /\ ts[k].token = <<>> => normalize_pattern(ts[k].token) = <<"/">>
         /\ \E i \in 1..Len(groups) :
              /\ groups[i].pattern = inp_strlower(ts[k].token) \o <<"/">>
              /\ \E a \in 1..Len(groups[i].addrs) : groups[i].addrs[a] = ts[k].addr
  /\ \A d \in 1..Len(directives) :
       Len(parse_config_str_list(directives[d].src, ":")) >= 1
  /\ (/\ call.op = "parse_config"
      /\ call.result = Returned(0)
      /\ EmptyPatternList(call.optarg))
     => \E i \in 1..Len(groups) :
          /\ groups[i].pattern = <<"/">>
          /\ groups[i].addrs[Len(groups[i].addrs)] = directives[Len(directives)].addr

\* A directive without pattern list created the group "/", and the directive
\* "h,8;a/:A" then put its address twice into the one group "a/".
C17_Witness ==
  /\ Len(directives) = 2
  /\ directives[1].src = <<>>
  /\ groups[1].pattern = <<"/">>
  /\ call.op = "parse_config"
  /\ call.result = Returned(0)
  /\ call.optarg = <<"h", ",", "8", ";", "a", "/", ":", "A">>
  /\ \E i \in 1..Len(groups) :
       /\ groups[i].pattern = <<"a", "/">>
       /\ groups[i].addrs = <<directives[2].addr, directives[2].addr>>

\* The address part of a backend argument: the text before the first ';'.
AddressPart(optarg) ==
  IF strchr(optarg, ";") = 0 THEN optarg ELSE SubSeq(optarg, 1, strchr(optarg, ";") - 1)

\* The pattern part of a backend argument: the text after the first ';'.
PatternPart(optarg) ==
  IF strchr(optarg, ";") = 0 THEN <<>>
  ELSE SubSeq(optarg, strchr(optarg, ";") + 1, Len(optarg))

\* The address is a unix path: such an address has no host,port form and is
\* not split.
UnixAddress(optarg) == istartsWith(optarg, SHRPX_UNIX_PATH_PREFIX)

\* The port of a host,port address: the number after its first ','.
PortOf(address) ==
  parse_uint(address, strchr(address, ",") + 1, Len(address) - strchr(address, ","))

\* A backend argument is malformed: its host,port address has no ',', a host
\* longer than the buffer holds or a port outside 1..65535, or its pattern
\* part contains ';'.
Malformed(optarg) ==
  LET address == AddressPart(optarg) IN
  \/ /\ ~UnixAddress(optarg)
     /\ \/ strchr(address, ",") = 0
        \/ strchr(address, ",") - 1 > NI_MAXHOST - 1
        \/ PortOf(address) < 1
        \/ PortOf(address) > 65535
  \/ strchr(PatternPart(optarg), ";") # 0

\* C18: a malformed backend directive is rejected before it reaches
\* parse_mapping: when the address part has no ',' separator, the host is too
\* long, the port is not in 1..65535, or the pattern part contains ';',
\* parse_config returns -1 and the table is left exactly as it was.
C18_MalformedRejected ==
  (call.op = "parse_config" /\ Malformed(call.optarg))
    => call.result = Returned(-1) /\ groups = call.before

\* What holds of a malformed backend directive: the table is left as it was,
\* and parse_config returns -1 unless the address part has no ',' while the
\* pattern part has one; then it returns -1 or ends in std::length_error.
C18_MalformedLeavesTable ==
  (call.op = "parse_config" /\ Malformed(call.optarg))
    => /\ groups = call.before
       /\ \/ call.result = Returned(-1)
          \/ /\ call.result = Thrown("length_error")
             /\ strchr(AddressPart(call.optarg), ",") = 0
             /\ strchr(PatternPart(call.optarg), ",") # 0

\* After a directive that built a group, a directive whose pattern part
\* contains ';' was rejected with -1 and the group is as it was.
C18_Witness ==
  /\ call.op = "parse_config"
  /\ strchr(PatternPart(call.optarg), ";") # 0
  /\ call.result = Returned(-1)
  /\ Len(directives) = 1
  /\ groups = call.before
  /\ groups # <<>>

\* C20: the pattern list is split on ':' before normalisation, so no pattern
\* of a table built by backend directives contains ':'; no directive can
\* register a pattern whose host is a bracketed IPv6 literal, and the token
\* "[::1]/x" produces the separate patterns "[/", "/" and "1]/x".
C20_NoColonInPattern ==
  /\ \A i \in 1..Len(groups) : strchr(groups[i].pattern, ":") = 0
  /\ (/\ call.op = "parse_config"
      /\ call.result = Returned(0)
      /\ PatternPart(call.optarg) = <<"[", ":", ":", "1", "]", "/", "x">>)
     => \A pattern \in { <<"[", "/">>, <<"/">>, <<"1", "]", "/", "x">> } :
          \E i \in 1..Len(groups) :
            /\ groups[i].pattern = pattern
            /\ groups[i].addrs[Len(groups[i].addrs)] = directives[Len(directives)].addr

\* The directive "h,8;[::1]/x" was processed on the empty table and left
\* exactly three groups.
C20_Witness ==
  /\ call.op = "parse_config"
  /\ call.result = Returned(0)
  /\ call.before = <<>>
  /\ PatternPart(call.optarg) = <<"[", ":", ":", "1", "]", "/", "x">>
  /\ Len(groups) = 3

(***************************************************************************)
(* Configuration files: load_config reads a file line by line and hands    *)
(* each option to parse_config; the include option loads another file      *)
(* through load_config (lines 1241-1256 and 1269-1298).  Of the options of *)
(* parse_config the model holds backend, include and conf; every other     *)
(* name is taken for an unknown option.                                    *)
(***************************************************************************)
SHRPX_OPT_BACKEND == <<"b", "a", "c", "k", "e", "n", "d">>
SHRPX_OPT_INCLUDE == <<"i", "n", "c", "l", "u", "d", "e">>

\* util::strieq: equality without regard to ASCII case.
strieq(a, b) == inp_strlower(a) = inp_strlower(b)

\* The files, each with its lines:
\*   A: "backend=h,8;a" | "include=B"
\*   B: "include=A"
\*   S: "include=S"
\*   T: "include=L" | "#c" | "" | "Include=L" | "conf=x"
\*   L: "backend=h,8;a"
\*   N: "include=L" | "include=M" | "backend=h,8"
\*   D: "include=E" | "backend=H,8;A"
\*   E: "include=L" | "include=L"
\*   X: "bad"
\*   Y: "x=1"
\*   Z: "include=X" | "backend=h,8"
\*   W: "backend=h,0" | "backend=h,8"
\*   V: "include=W"
\*   P: "include=Q"
\*   Q: "include=R"
\*   R: "backend=h,8;/a" | "include=P"
\*   K: "include=L" | "backend=h;a,8"
\*   O: "workers=1" | "backend=h,8"
\*   F: "frontend=h,8" | "include=L"
\*   G: "pw"
\*   U: "Daemon=yes" | "backlog=4294967295" | "frontend-http2-window-bits=4294967296" | "private-key-passwd-file=G" | "read-rate=1k" | "frontend-read-timeout=5m" | "backend-http-proxy-uri=http://u@h:8" | "altsvc=h2,8" | "add-request-header=a:b" | "include=L"
\*   H: "include=O" | "add-response-header=" | "backend=h,8;a"
\*   I: "workers=x" | "backend=h,8"
\* No file has the name M.
Files ==
  { [filename |-> <<"A">>,
     lines |-> <<<<"b", "a", "c", "k", "e", "n", "d", "=", "h", ",", "8", ";", "a">>, <<"i", "n", "c", "l", "u", "d", "e", "=", "B">>>>],
    [filename |-> <<"B">>,
     lines |-> <<<<"i", "n", "c", "l", "u", "d", "e", "=", "A">>>>],
    [filename |-> <<"S">>,
     lines |-> <<<<"i", "n", "c", "l", "u", "d", "e", "=", "S">>>>],
    [filename |-> <<"T">>,
     lines |-> <<<<"i", "n", "c", "l", "u", "d", "e", "=", "L">>, <<"#", "c">>, <<>>, <<"I", "n", "c", "l", "u", "d", "e", "=", "L">>, <<"c", "o", "n", "f", "=", "x">>>>],
    [filename |-> <<"L">>,
     lines |-> <<<<"b", "a", "c", "k", "e", "n", "d", "=", "h", ",", "8", ";", "a">>>>],
    [filename |-> <<"N">>,
     lines |-> <<<<"i", "n", "c", "l", "u", "d", "e", "=", "L">>, <<"i", "n", "c", "l", "u", "d", "e", "=", "M">>, <<"b", "a", "c", "k", "e", "n", "d", "=", "h", ",", "8">>>>],
    [filename |-> <<"D">>,
     lines |-> <<<<"i", "n", "c", "l", "u", "d", "e", "=", "E">>, <<"b", "a", "c", "k", "e", "n", "d", "=", "H", ",", "8", ";", "A">>>>],
    [filename |-> <<"E">>,
     lines |-> <<<<"i", "n", "c", "l", "u", "d", "e", "=", "L">>, <<"i", "n", "c", "l", "u", "d", "e", "=", "L">>>>],
    [filename |-> <<"X">>,
     lines |-> <<<<"b", "a", "d">>>>],
    [filename |-> <<"Y">>,
     lines |-> <<<<"x", "=", "1">>>>],
    [filename |-> <<"Z">>,
     lines |-> <<<<"i", "n", "c", "l", "u", "d", "e", "=", "X">>, <<"b", "a", "c", "k", "e", "n", "d", "=", "h", ",", "8">>>>],
    [filename |-> <<"W">>,
     lines |-> <<<<"b", "a", "c", "k", "e", "n", "d", "=", "h", ",", "0">>, <<"b", "a", "c", "k", "e", "n", "d", "=", "h", ",", "8">>>>],
    [filename |-> <<"V">>,
     lines |-> <<<<"i", "n", "c", "l", "u", "d", "e", "=", "W">>>>],
    [filename |-> <<"P">>,
     lines |-> <<<<"i", "n", "c", "l", "u", "d", "e", "=", "Q">>>>],
    [filename |-> <<"Q">>,
     lines |-> <<<<"i", "n", "c", "l", "u", "d", "e", "=", "R">>>>],
    [filename |-> <<"R">>,
     lines |-> <<<<"b", "a", "c", "k", "e", "n", "d", "=", "h", ",", "8", ";", "/", "a">>, <<"i", "n", "c", "l", "u", "d", "e", "=", "P">>>>],
    [filename |-> <<"K">>,
     lines |-> <<<<"i", "n", "c", "l", "u", "d", "e", "=", "L">>, <<"b", "a", "c", "k", "e", "n", "d", "=", "h", ";", "a", ",", "8">>>>],
    [filename |-> <<"O">>,
     lines |-> <<<<"w", "o", "r", "k", "e", "r", "s", "=", "1">>, <<"b", "a", "c", "k", "e", "n", "d", "=", "h", ",", "8">>>>],
    [filename |-> <<"F">>,
     lines |-> <<<<"f", "r", "o", "n", "t", "e", "n", "d", "=", "h", ",", "8">>, <<"i", "n", "c", "l", "u", "d", "e", "=", "L">>>>],
    [filename |-> <<"G">>,
     lines |-> <<<<"p", "w">>>>],
    [filename |-> <<"U">>,
     lines |-> <<<<"D", "a", "e", "m", "o", "n", "=", "y", "e", "s">>, <<"b", "a", "c", "k", "l", "o", "g", "=", "4", "2", "9", "4", "9", "6", "7", "2", "9", "5">>, <<"f", "r", "o", "n", "t", "e", "n", "d", "-", "h", "t", "t", "p", "2", "-", "w", "i", "n", "d", "o", "w", "-", "b", "i", "t", "s", "=", "4", "2", "9", "4", "9", "6", "7", "2", "9", "6">>, <<"p", "r", "i", "v", "a", "t", "e", "-", "k", "e", "y", "-", "p", "a", "s", "s", "w", "d", "-", "f", "i", "l", "e", "=", "G">>, <<"r", "e", "a", "d", "-", "r", "a", "t", "e", "=", "1", "k">>, <<"f", "r", "o", "n", "t", "e", "n", "d", "-", "r", "e", "a", "d", "-", "t", "i", "m", "e", "o", "u", "t", "=", "5", "m">>, <<"b", "a", "c", "k", "e", "n", "d", "-", "h", "t", "t", "p", "-", "p", "r", "o", "x", "y", "-", "u", "r", "i", "=", "h", "t", "t", "p", ":", "/", "/", "u", "@", "h", ":", "8">>, <<"a", "l", "t", "s", "v", "c", "=", "h", "2", ",", "8">>, <<"a", "d", "d", "-", "r", "e", "q", "u", "e", "s", "t", "-", "h", "e", "a", "d", "e", "r", "=", "a", ":", "b">>, <<"i", "n", "c", "l", "u", "d", "e", "=", "L">>>>],
    [filename |-> <<"H">>,
     lines |-> <<<<"i", "n", "c", "l", "u", "d", "e", "=", "O">>, <<"a", "d", "d", "-", "r", "e", "s", "p", "o", "n", "s", "e", "-", "h", "e", "a", "d", "e", "r", "=">>, <<"b", "a", "c", "k", "e", "n", "d", "=", "h", ",", "8", ";", "a">>>>],
    [filename |-> <<"I">>,
     lines |-> <<<<"w", "o", "r", "k", "e", "r", "s", "=", "x">>, <<"b", "a", "c", "k", "e", "n", "d", "=", "h", ",", "8">>>>] }

FileNames == {f.filename : f \in Files}

\* std::ifstream in(filename): the file can be opened.
CanOpen(filename) == filename \in FileNames

\* The lines std::getline reads from the file.
LinesOf(filename) == (CHOOSE f \in Files : f.filename = filename).lines

\* The names load_config is first called with.
TopFiles == FileNames \cup {<<"M">>}

\* included_set.count(optarg) without the lookup: no name counts as included.
already_included_never(set, optarg) == FALSE

\* included_set.count(optarg) (line 1242).
already_included(set, optarg) == optarg \in set

\* included_set.emplace(optarg) (line 1247).
emplace(set, optarg) == set \cup {optarg}

\* included_set.erase(optarg) that leaves the name in the set.
erase_nothing(set, optarg) == set

\* included_set.erase(optarg) (line 1249).
erase(set, optarg) == set \ {optarg}

\* One load_config call in progress: linenum lines of filename are read, and
\* before is the set the include directive that made the call had found.
Frame(filename, before) == [filename |-> filename, linenum |-> 0, before |-> before]

\* The include directive for optarg has returned ret; loaded tells whether
\* load_config read the file, before is the set the directive found.
IncludeReturned(optarg, ret, loaded, before) ==
  [op |-> "include", optarg |-> optarg, ret |-> ret, loaded |-> loaded, before |-> before]

\* The first load_config call has returned ret.
LoadReturned(filename, ret) == [op |-> "load_config", filename |-> filename, ret |-> ret]

\* The innermost load_config call and the line it reads next.
Top == stack[Len(stack)]
NextLine == LinesOf(Top.filename)[Top.linenum + 1]

\* The stack with the line counted as read (++linenum, line 1279).
Advanced == [stack EXCEPT ![Len(stack)].linenum = @ + 1]

\* The name and the argument of an option line: the text before and behind
\* its first '=' (lines 1284-1292).
OptOf(line) == SubSeq(line, 1, strchr(line, "=") - 1)
OptargOf(line) == SubSeq(line, strchr(line, "=") + 1, Len(line))

InitInclude ==
  /\ groups = <<>>
  /\ catch_all = 0
  /\ phase = "start"
  /\ directives = <<>>
  /\ reader = NoReader
  /\ stack = <<>>
  /\ included_set = {}
  /\ \E filename \in TopFiles : call = [op |-> "args", filename |-> filename]

\* The first load_config call, with an empty set, opens its file (lines
\* 1269-1274).
LoadConfig ==
  /\ phase = "start"
  /\ IF CanOpen(call.filename)
     THEN /\ stack' = <<Frame(call.filename, {})>>
          /\ phase' = "load"
          /\ call' = [op |-> "open", filename |-> call.filename]
     ELSE /\ stack' = stack
          /\ phase' = "done"
          /\ call' = LoadReturned(call.filename, -1)
  /\ UNCHANGED <<groups, catch_all, directives, reader, included_set>>

\* load_config has a line to read.
Reading == phase = "load" /\ Top.linenum < Len(LinesOf(Top.filename))

\* What load_config and parse_config take a line for: an empty line or a
\* comment is skipped (lines 1280-1282), a line without '=' is bad (lines
\* 1283-1290), and an option line names include (line 1241) or not.
LineKind(line) ==
  IF line = <<>> THEN "skip"
  ELSE IF line[1] = "#" THEN "skip"
  ELSE IF strchr(line, "=") = 0 THEN "bad"
  ELSE IF strieq(OptOf(line), SHRPX_OPT_INCLUDE) THEN "include"
  ELSE "option"

\* The line is an option line naming the include option.
IncludeLine == Reading /\ LineKind(NextLine) = "include"

\* An empty line or a comment is skipped (lines 1280-1282).
SkipLine ==
  /\ Reading
  /\ LineKind(NextLine) = "skip"
  /\ stack' = Advanced
  /\ call' = [op |-> "skip"]
  /\ UNCHANGED <<groups, catch_all, phase, directives, reader, included_set>>

\* A line without '=' makes load_config return -1 (lines 1283-1290).
BadLine ==
  /\ Reading
  /\ LineKind(NextLine) = "bad"
  /\ stack' = Advanced
  /\ phase' = "unwind"
  /\ call' = [op |-> "bad_line"]
  /\ UNCHANGED <<groups, catch_all, directives, reader, included_set>>

(***************************************************************************)
(* The other branches of parse_config (lines 564-1239).  Only the return   *)
(* value and the routing table are kept; the field of the configuration    *)
(* an option writes is left out.  The option names are those of            *)
(* shrpx_config.h: the name of the constant in lower case with '-' for     *)
(* '_'.                                                                    *)
(***************************************************************************)
SHRPX_OPT_FRONTEND == <<"f", "r", "o", "n", "t", "e", "n", "d">>
SHRPX_OPT_LOG_LEVEL == <<"l", "o", "g", "-", "l", "e", "v", "e", "l">>
SHRPX_OPT_FRONTEND_HTTP2_WINDOW_BITS == <<"f", "r", "o", "n", "t", "e", "n",
                                          "d", "-", "h", "t", "t", "p", "2",
                                          "-", "w", "i", "n", "d", "o", "w",
                                          "-", "b", "i", "t", "s">>
SHRPX_OPT_BACKEND_HTTP2_WINDOW_BITS == <<"b", "a", "c", "k", "e", "n", "d",
                                         "-", "h", "t", "t", "p", "2", "-",
                                         "w", "i", "n", "d", "o", "w", "-",
                                         "b", "i", "t", "s">>
SHRPX_OPT_FRONTEND_HTTP2_CONNECTION_WINDOW_BITS == <<"f", "r", "o", "n",
                                                     "t", "e", "n", "d",
                                                     "-", "h", "t", "t",
                                                     "p", "2", "-", "c",
                                                     "o", "n", "n", "e",
                                                     "c", "t", "i", "o",
                                                     "n", "-", "w", "i",
                                                     "n", "d", "o", "w",
                                                     "-", "b", "i", "t", "s">>
SHRPX_OPT_BACKEND_HTTP2_CONNECTION_WINDOW_BITS == <<"b", "a", "c", "k", "e",
                                                    "n", "d", "-", "h", "t",
                                                    "t", "p", "2", "-", "c",
                                                    "o", "n", "n", "e", "c",
                                                    "t", "i", "o", "n", "-",
                                                    "w", "i", "n", "d", "o",
                                                    "w", "-", "b", "i", "t",
                                                    "s">>
SHRPX_OPT_USER == <<"u", "s", "e", "r">>
SHRPX_OPT_PRIVATE_KEY_PASSWD_FILE == <<"p", "r", "i", "v", "a", "t", "e",
                                       "-", "k", "e", "y", "-", "p", "a",
                                       "s", "s", "w", "d", "-", "f", "i",
                                       "l", "e">>
SHRPX_OPT_SYSLOG_FACILITY == <<"s", "y", "s", "l", "o", "g", "-", "f", "a",
                               "c", "i", "l", "i", "t", "y">>
SHRPX_OPT_BACKLOG == <<"b", "a", "c", "k", "l", "o", "g">>
SHRPX_OPT_BACKEND_HTTP_PROXY_URI == <<"b", "a", "c", "k", "e", "n", "d",
                                      "-", "h", "t", "t", "p", "-", "p",
                                      "r", "o", "x", "y", "-", "u", "r", "i">>
SHRPX_OPT_ALTSVC == <<"a", "l", "t", "s", "v", "c">>
SHRPX_OPT_ADD_REQUEST_HEADER == <<"a", "d", "d", "-", "r", "e", "q", "u",
                                  "e", "s", "t", "-", "h", "e", "a", "d",
                                  "e", "r">>
SHRPX_OPT_ADD_RESPONSE_HEADER == <<"a", "d", "d", "-", "r", "e", "s", "p",
                                   "o", "n", "s", "e", "-", "h", "e", "a",
                                   "d", "e", "r">>
SHRPX_OPT_BACKEND_HTTP1_CONNECTIONS_PER_HOST == <<"b", "a", "c", "k", "e",
                                                  "n", "d", "-", "h", "t",
                                                  "t", "p", "1", "-", "c",
                                                  "o", "n", "n", "e", "c",
                                                  "t", "i", "o", "n", "s",
                                                  "-", "p", "e", "r", "-",
                                                  "h", "o", "s", "t">>
SHRPX_OPT_RLIMIT_NOFILE == <<"r", "l", "i", "m", "i", "t", "-", "n", "o",
                             "f", "i", "l", "e">>
SHRPX_OPT_BACKEND_REQUEST_BUFFER == <<"b", "a", "c", "k", "e", "n", "d",
                                      "-", "r", "e", "q", "u", "e", "s",
                                      "t", "-", "b", "u", "f", "f", "e", "r">>
SHRPX_OPT_BACKEND_RESPONSE_BUFFER == <<"b", "a", "c", "k", "e", "n", "d",
                                       "-", "r", "e", "s", "p", "o", "n",
                                       "s", "e", "-", "b", "u", "f", "f",
                                       "e", "r">>

\* Options that store util::strieq(optarg, "yes") and return 0.
YesNoOptions ==
  {
    \* SHRPX_OPT_DAEMON
    <<"d", "a", "e", "m", "o", "n">>,
    \* SHRPX_OPT_HTTP2_PROXY
    <<"h", "t", "t", "p", "2", "-", "p", "r", "o", "x", "y">>,
    \* SHRPX_OPT_HTTP2_BRIDGE
    <<"h", "t", "t", "p", "2", "-", "b", "r", "i", "d", "g", "e">>,
    \* SHRPX_OPT_CLIENT_PROXY
    <<"c", "l", "i", "e", "n", "t", "-", "p", "r", "o", "x", "y">>,
    \* SHRPX_OPT_ADD_X_FORWARDED_FOR
    <<"a", "d", "d", "-", "x", "-", "f", "o", "r", "w", "a", "r", "d", "e",
      "d", "-", "f", "o", "r">>,
    \* SHRPX_OPT_STRIP_INCOMING_X_FORWARDED_FOR
    <<"s", "t", "r", "i", "p", "-", "i", "n", "c", "o", "m", "i", "n", "g",
      "-", "x", "-", "f", "o", "r", "w", "a", "r", "d", "e", "d", "-", "f",
      "o", "r">>,
    \* SHRPX_OPT_NO_VIA
    <<"n", "o", "-", "v", "i", "a">>,
    \* SHRPX_OPT_ACCESSLOG_SYSLOG
    <<"a", "c", "c", "e", "s", "s", "l", "o", "g", "-", "s", "y", "s", "l",
      "o", "g">>,
    \* SHRPX_OPT_ERRORLOG_SYSLOG
    <<"e", "r", "r", "o", "r", "l", "o", "g", "-", "s", "y", "s", "l", "o",
      "g">>,
    \* SHRPX_OPT_FRONTEND_NO_TLS
    <<"f", "r", "o", "n", "t", "e", "n", "d", "-", "n", "o", "-", "t", "l",
      "s">>,
    \* SHRPX_OPT_BACKEND_NO_TLS
    <<"b", "a", "c", "k", "e", "n", "d", "-", "n", "o", "-", "t", "l", "s">>,
    \* SHRPX_OPT_CLIENT
    <<"c", "l", "i", "e", "n", "t">>,
    \* SHRPX_OPT_INSECURE
    <<"i", "n", "s", "e", "c", "u", "r", "e">>,
    \* SHRPX_OPT_BACKEND_IPV4
    <<"b", "a", "c", "k", "e", "n", "d", "-", "i", "p", "v", "4">>,
    \* SHRPX_OPT_BACKEND_IPV6
    <<"b", "a", "c", "k", "e", "n", "d", "-", "i", "p", "v", "6">>,
    \* SHRPX_OPT_VERIFY_CLIENT
    <<"v", "e", "r", "i", "f", "y", "-", "c", "l", "i", "e", "n", "t">>,
    \* SHRPX_OPT_HTTP2_NO_COOKIE_CRUMBLING
    <<"h", "t", "t", "p", "2", "-", "n", "o", "-", "c", "o", "o", "k", "i",
      "e", "-", "c", "r", "u", "m", "b", "l", "i", "n", "g">>,
    \* SHRPX_OPT_FRONTEND_FRAME_DEBUG
    <<"f", "r", "o", "n", "t", "e", "n", "d", "-", "f", "r", "a", "m", "e",
      "-", "d", "e", "b", "u", "g">>,
    \* SHRPX_OPT_NO_LOCATION_REWRITE
    <<"n", "o", "-", "l", "o", "c", "a", "t", "i", "o", "n", "-", "r", "e",
      "w", "r", "i", "t", "e">>,
    \* SHRPX_OPT_NO_HOST_REWRITE
    <<"n", "o", "-", "h", "o", "s", "t", "-", "r", "e", "w", "r", "i", "t",
      "e">>,
    \* SHRPX_OPT_NO_SERVER_PUSH
    <<"n", "o", "-", "s", "e", "r", "v", "e", "r", "-", "p", "u", "s", "h">>,
    \* SHRPX_OPT_NO_OCSP
    <<"n", "o", "-", "o", "c", "s", "p">> }

\* Options that store a copy of optarg, or of its parts, and return 0
\* (strcopy, parse_log_format, parse_config_str_list, subcerts,
\* tls_ticket_key_files).
StringOptions ==
  {
    \* SHRPX_OPT_ACCESSLOG_FILE
    <<"a", "c", "c", "e", "s", "s", "l", "o", "g", "-", "f", "i", "l", "e">>,
    \* SHRPX_OPT_ERRORLOG_FILE
    <<"e", "r", "r", "o", "r", "l", "o", "g", "-", "f", "i", "l", "e">>,
    \* SHRPX_OPT_BACKEND_TLS_SNI_FIELD
    <<"b", "a", "c", "k", "e", "n", "d", "-", "t", "l", "s", "-", "s", "n",
      "i", "-", "f", "i", "e", "l", "d">>,
    \* SHRPX_OPT_PID_FILE
    <<"p", "i", "d", "-", "f", "i", "l", "e">>,
    \* SHRPX_OPT_PRIVATE_KEY_FILE
    <<"p", "r", "i", "v", "a", "t", "e", "-", "k", "e", "y", "-", "f", "i",
      "l", "e">>,
    \* SHRPX_OPT_CERTIFICATE_FILE
    <<"c", "e", "r", "t", "i", "f", "i", "c", "a", "t", "e", "-", "f", "i",
      "l", "e">>,
    \* SHRPX_OPT_DH_PARAM_FILE
    <<"d", "h", "-", "p", "a", "r", "a", "m", "-", "f", "i", "l", "e">>,
    \* SHRPX_OPT_CIPHERS
    <<"c", "i", "p", "h", "e", "r", "s">>,
    \* SHRPX_OPT_CACERT
    <<"c", "a", "c", "e", "r", "t">>,
    \* SHRPX_OPT_VERIFY_CLIENT_CACERT
    <<"v", "e", "r", "i", "f", "y", "-", "c", "l", "i", "e", "n", "t", "-",
      "c", "a", "c", "e", "r", "t">>,
    \* SHRPX_OPT_CLIENT_PRIVATE_KEY_FILE
    <<"c", "l", "i", "e", "n", "t", "-", "p", "r", "i", "v", "a", "t", "e",
      "-", "k", "e", "y", "-", "f", "i", "l", "e">>,
    \* SHRPX_OPT_CLIENT_CERT_FILE
    <<"c", "l", "i", "e", "n", "t", "-", "c", "e", "r", "t", "-", "f", "i",
      "l", "e">>,
    \* SHRPX_OPT_FRONTEND_HTTP2_DUMP_REQUEST_HEADER
    <<"f", "r", "o", "n", "t", "e", "n", "d", "-", "h", "t", "t", "p", "2",
      "-", "d", "u", "m", "p", "-", "r", "e", "q", "u", "e", "s", "t", "-",
      "h", "e", "a", "d", "e", "r">>,
    \* SHRPX_OPT_FRONTEND_HTTP2_DUMP_RESPONSE_HEADER
    <<"f", "r", "o", "n", "t", "e", "n", "d", "-", "h", "t", "t", "p", "2",
      "-", "d", "u", "m", "p", "-", "r", "e", "s", "p", "o", "n", "s", "e",
      "-", "h", "e", "a", "d", "e", "r">>,
    \* SHRPX_OPT_FETCH_OCSP_RESPONSE_FILE
    <<"f", "e", "t", "c", "h", "-", "o", "c", "s", "p", "-", "r", "e", "s",
      "p", "o", "n", "s", "e", "-", "f", "i", "l", "e">>,
    \* SHRPX_OPT_ACCESSLOG_FORMAT
    <<"a", "c", "c", "e", "s", "s", "l", "o", "g", "-", "f", "o", "r", "m",
      "a", "t">>,
    \* SHRPX_OPT_SUBCERT
    <<"s", "u", "b", "c", "e", "r", "t">>,
    \* SHRPX_OPT_NPN_LIST
    <<"n", "p", "n", "-", "l", "i", "s", "t">>,
    \* SHRPX_OPT_TLS_PROTO_LIST
    <<"t", "l", "s", "-", "p", "r", "o", "t", "o", "-", "l", "i", "s", "t">>,
    \* SHRPX_OPT_TLS_TICKET_KEY_FILE
    <<"t", "l", "s", "-", "t", "i", "c", "k", "e", "t", "-", "k", "e", "y",
      "-", "f", "i", "l", "e">> }

\* Options that return parse_uint(dest, opt, optarg).
UintOptions ==
  {
    \* SHRPX_OPT_WORKERS
    <<"w", "o", "r", "k", "e", "r", "s">>,
    \* SHRPX_OPT_HTTP2_MAX_CONCURRENT_STREAMS
    <<"h", "t", "t", "p", "2", "-", "m", "a", "x", "-", "c", "o", "n", "c",
      "u", "r", "r", "e", "n", "t", "-", "s", "t", "r", "e", "a", "m", "s">>,
    \* SHRPX_OPT_PADDING
    <<"p", "a", "d", "d", "i", "n", "g">>,
    \* SHRPX_OPT_WORKER_FRONTEND_CONNECTIONS
    <<"w", "o", "r", "k", "e", "r", "-", "f", "r", "o", "n", "t", "e", "n",
      "d", "-", "c", "o", "n", "n", "e", "c", "t", "i", "o", "n", "s">>,
    \* SHRPX_OPT_BACKEND_HTTP1_CONNECTIONS_PER_FRONTEND
    <<"b", "a", "c", "k", "e", "n", "d", "-", "h", "t", "t", "p", "1", "-",
      "c", "o", "n", "n", "e", "c", "t", "i", "o", "n", "s", "-", "p", "e",
      "r", "-", "f", "r", "o", "n", "t", "e", "n", "d">>,
    \* SHRPX_OPT_BACKEND_HTTP2_CONNECTIONS_PER_WORKER
    <<"b", "a", "c", "k", "e", "n", "d", "-", "h", "t", "t", "p", "2", "-",
      "c", "o", "n", "n", "e", "c", "t", "i", "o", "n", "s", "-", "p", "e",
      "r", "-", "w", "o", "r", "k", "e", "r">>,
    \* SHRPX_OPT_MAX_HEADER_FIELDS
    <<"m", "a", "x", "-", "h", "e", "a", "d", "e", "r", "-", "f", "i", "e",
      "l", "d", "s">> }

\* Options that return parse_uint_with_unit(dest, opt, optarg).
UnitOptions ==
  {
    \* SHRPX_OPT_READ_RATE
    <<"r", "e", "a", "d", "-", "r", "a", "t", "e">>,
    \* SHRPX_OPT_READ_BURST
    <<"r", "e", "a", "d", "-", "b", "u", "r", "s", "t">>,
    \* SHRPX_OPT_WRITE_RATE
    <<"w", "r", "i", "t", "e", "-", "r", "a", "t", "e">>,
    \* SHRPX_OPT_WRITE_BURST
    <<"w", "r", "i", "t", "e", "-", "b", "u", "r", "s", "t">>,
    \* SHRPX_OPT_WORKER_READ_RATE
    <<"w", "o", "r", "k", "e", "r", "-", "r", "e", "a", "d", "-", "r", "a",
      "t", "e">>,
    \* SHRPX_OPT_WORKER_READ_BURST
    <<"w", "o", "r", "k", "e", "r", "-", "r", "e", "a", "d", "-", "b", "u",
      "r", "s", "t">>,
    \* SHRPX_OPT_WORKER_WRITE_RATE
    <<"w", "o", "r", "k", "e", "r", "-", "w", "r", "i", "t", "e", "-", "r",
      "a", "t", "e">>,
    \* SHRPX_OPT_WORKER_WRITE_BURST
    <<"w", "o", "r", "k", "e", "r", "-", "w", "r", "i", "t", "e", "-", "b",
      "u", "r", "s", "t">>,
    \* SHRPX_OPT_HEADER_FIELD_BUFFER
    <<"h", "e", "a", "d", "e", "r", "-", "f", "i", "e", "l", "d", "-", "b",
      "u", "f", "f", "e", "r">> }

\* Options that return parse_duration(dest, opt, optarg).
DurationOptions ==
  {
    \* SHRPX_OPT_FRONTEND_HTTP2_READ_TIMEOUT
    <<"f", "r", "o", "n", "t", "e", "n", "d", "-", "h", "t", "t", "p", "2",
      "-", "r", "e", "a", "d", "-", "t", "i", "m", "e", "o", "u", "t">>,
    \* SHRPX_OPT_FRONTEND_READ_TIMEOUT
    <<"f", "r", "o", "n", "t", "e", "n", "d", "-", "r", "e", "a", "d", "-",
      "t", "i", "m", "e", "o", "u", "t">>,
    \* SHRPX_OPT_FRONTEND_WRITE_TIMEOUT
    <<"f", "r", "o", "n", "t", "e", "n", "d", "-", "w", "r", "i", "t", "e",
      "-", "t", "i", "m", "e", "o", "u", "t">>,
    \* SHRPX_OPT_BACKEND_READ_TIMEOUT
    <<"b", "a", "c", "k", "e", "n", "d", "-", "r", "e", "a", "d", "-", "t",
      "i", "m", "e", "o", "u", "t">>,
    \* SHRPX_OPT_BACKEND_WRITE_TIMEOUT
    <<"b", "a", "c", "k", "e", "n", "d", "-", "w", "r", "i", "t", "e", "-",
      "t", "i", "m", "e", "o", "u", "t">>,
    \* SHRPX_OPT_STREAM_READ_TIMEOUT
    <<"s", "t", "r", "e", "a", "m", "-", "r", "e", "a", "d", "-", "t", "i",
      "m", "e", "o", "u", "t">>,
    \* SHRPX_OPT_STREAM_WRITE_TIMEOUT
    <<"s", "t", "r", "e", "a", "m", "-", "w", "r", "i", "t", "e", "-", "t",
      "i", "m", "e", "o", "u", "t">>,
    \* SHRPX_OPT_BACKEND_KEEP_ALIVE_TIMEOUT
    <<"b", "a", "c", "k", "e", "n", "d", "-", "k", "e", "e", "p", "-", "a",
      "l", "i", "v", "e", "-", "t", "i", "m", "e", "o", "u", "t">>,
    \* SHRPX_OPT_LISTENER_DISABLE_TIMEOUT
    <<"l", "i", "s", "t", "e", "n", "e", "r", "-", "d", "i", "s", "a", "b",
      "l", "e", "-", "t", "i", "m", "e", "o", "u", "t">>,
    \* SHRPX_OPT_OCSP_UPDATE_INTERVAL
    <<"o", "c", "s", "p", "-", "u", "p", "d", "a", "t", "e", "-", "i", "n",
      "t", "e", "r", "v", "a", "l">> }

\* In the definitions below, CHOOSE x \in {e(v) : v \in {d}} : TRUE is e(d)
\* with d worked out once.

\* opt names one of the options in names (util::strieq on each branch).
IsOption(opt, names) == \E n \in names : strieq(opt, n)

\* The white space strtol skips (isspace in the C locale, '\v' apart, which
\* no string here holds).
SpaceChars == {" ", "\t", "\n", "\f", "\r"}

RECURSIVE skip_space(_, _)
skip_space(s, i) ==
  IF i <= Len(s) /\ s[i] \in SpaceChars THEN skip_space(s, i + 1) ELSE i

\* The magnitude of LONG_MIN for a 64-bit long.
LONG_MIN_MAGNITUDE ==
  <<"9", "2", "2", "3", "3", "7", "2", "0", "3", "6", "8", "5", "4", "7",
    "7", "5", "8", "0", "8">>

\* strtol(s, &end, 10) with a 64-bit long: white space, a sign, digits.
\* end is the position behind the number (1 when there is no digit, Len + 1
\* at the terminator); the value is neg and the numeral mag; erange stands
\* for errno = ERANGE.
strtol(s) ==
  CHOOSE r \in
    { LET neg == i <= Len(s) /\ s[i] = "-"
          j == IF i <= Len(s) /\ s[i] \in {"+", "-"} THEN i + 1 ELSE i
      IN CHOOSE q \in
           { IF e = j
             THEN [end |-> 1, neg |-> FALSE, mag |-> <<>>, erange |-> FALSE]
             ELSE CHOOSE p \in
                    { [end |-> e, neg |-> neg,
                       mag |-> IF DecLess(limit, mag) THEN limit ELSE mag,
                       erange |-> DecLess(limit, mag)] :
                      mag \in {strip_zeros(SubSeq(s, j, e - 1))},
                      limit \in {IF neg THEN LONG_MIN_MAGNITUDE
                                 ELSE INT64_MAX} } : TRUE :
             e \in {digits_end(s, j)} } : TRUE :
      i \in {skip_space(s, 1)} } : TRUE

\* The numeral d modulo 2^32 as the two 16-bit halves <<hi, lo>>.
RECURSIVE mod_2_32(_, _, _)
mod_2_32(d, hi, lo) ==
  IF d = <<>> THEN <<hi, lo>>
  ELSE CHOOSE m \in
         { mod_2_32(t, (h * 10 + l \div 65536) % 65536, l % 65536) :
           t \in {Tail(d)}, h \in {hi}, l \in {lo * 10 + DigitValue(d[1])} } :
         TRUE

\* The long value (neg, mag) stored in an int: the low 32 bits, read as a
\* two's complement number.
to_int(neg, mag) ==
  CHOOSE n \in
    { LET hi == IF ~neg THEN m[1]
                ELSE (65535 - m[1] + (IF m[2] = 0 THEN 1 ELSE 0)) % 65536
          lo == IF ~neg THEN m[2] ELSE (65536 - m[2]) % 65536
      IN IF hi >= 32768 THEN (hi - 65536) * 65536 + lo ELSE hi * 65536 + lo :
      m \in {mod_2_32(mag, 0, 0)} } : TRUE

\* parse_uint(dest, opt, optarg) (lines 292-308): -1 for an empty string,
\* a range error, text behind the number or a negative number; dest is the
\* value stored in an int.
parse_uint_dest(optarg) ==
  CHOOSE d \in
    { IF optarg = <<>> \/ r.erange \/ r.end # Len(optarg) + 1
         \/ (r.neg /\ r.mag # <<>>)
      THEN [ret |-> -1, dest |-> 0]
      ELSE [ret |-> 0, dest |-> to_int(r.neg, r.mag)] :
      r \in {strtol(optarg)} } : TRUE

\* parse_int(dest, opt, optarg) (lines 325-341): as parse_uint, but a
\* negative number is accepted.
parse_int(optarg) ==
  CHOOSE d \in
    { IF optarg = <<>> \/ r.erange \/ r.end # Len(optarg) + 1
      THEN [ret |-> -1, dest |-> 0]
      ELSE [ret |-> 0, dest |-> to_int(r.neg, r.mag)] :
      r \in {strtol(optarg)} } : TRUE

\* util::parse_uint_digits: the numeral at the start of s and the position
\* behind it; ok is FALSE (n = -1) for no digit or a number above the
\* largest int64_t.
parse_uint_digits(s) ==
  CHOOSE r \in
    { CHOOSE q \in
        { [ok |-> e > 1 /\ ~DecLess(INT64_MAX, mag), mag |-> mag, i |-> e] :
          mag \in {strip_zeros(SubSeq(s, 1, e - 1))} } : TRUE :
      e \in {digits_end(s, 1)} } : TRUE

\* The largest int64_t divided by 2^10, 2^20 and 2^30.
MaxOverK ==
  <<"9", "0", "0", "7", "1", "9", "9", "2", "5", "4", "7", "4", "0", "9",
    "9", "1">>
MaxOverM == <<"8", "7", "9", "6", "0", "9", "3", "0", "2", "2", "2", "0", "7">>
MaxOverG == <<"8", "5", "8", "9", "9", "3", "4", "5", "9", "1">>

\* util::parse_uint_with_unit: digits and at most one of the units k, m, g
\* (either case); ok is FALSE where it returns -1, zero tells whether the
\* number is 0.
parse_uint_with_unit(s) ==
  CHOOSE n \in {
  LET unit == lowcase(s[r.i])
      max == IF unit = "k" THEN MaxOverK
             ELSE IF unit = "m" THEN MaxOverM ELSE MaxOverG
  IN IF ~r.ok THEN [ok |-> FALSE, zero |-> FALSE]
     ELSE IF r.i = Len(s) + 1 THEN [ok |-> TRUE, zero |-> r.mag = <<>>]
     ELSE IF r.i # Len(s) THEN [ok |-> FALSE, zero |-> FALSE]
     ELSE IF unit \notin {"k", "m", "g"} THEN [ok |-> FALSE, zero |-> FALSE]
     ELSE IF DecLess(max, r.mag) THEN [ok |-> FALSE, zero |-> FALSE]
     ELSE [ok |-> TRUE, zero |-> r.mag = <<>>] :
  r \in {parse_uint_digits(s)} } : TRUE

\* util::parse_duration_with_unit: digits and at most one of the units h,
\* m, s, ms (either case); FALSE where it returns infinity.
parse_duration_with_unit(s) ==
  LET r == parse_uint_digits(s)
      rest == inp_strlower(SubSeq(s, r.i, Len(s)))
  IN r.ok /\ rest \in {<<>>, <<"s">>, <<"m">>, <<"m", "s">>, <<"h">>}

\* parse_duration (lines 470-480).
parse_duration(optarg) == IF parse_duration_with_unit(optarg) THEN 0 ELSE -1

\* Log::set_severity_level_by_name: 0 for the name of a severity level.
SeverityNames ==
  { <<"I", "N", "F", "O">>, <<"N", "O", "T", "I", "C", "E">>,
    <<"W", "A", "R", "N">>, <<"E", "R", "R", "O", "R">>,
    <<"F", "A", "T", "A", "L">> }
set_severity_level_by_name(name) == IF IsOption(name, SeverityNames) THEN 0 ELSE -1

\* The facilities int_syslog_facility knows (lines 1349-1435), in the order
\* it tests them, each with its number in <syslog.h> (LOG_AUTH, ...).
SyslogFacilities ==
  << [name |-> <<"a", "u", "t", "h">>, facility |-> 32],
     [name |-> <<"a", "u", "t", "h", "p", "r", "i", "v">>, facility |-> 80],
     [name |-> <<"c", "r", "o", "n">>, facility |-> 72],
     [name |-> <<"d", "a", "e", "m", "o", "n">>, facility |-> 24],
     [name |-> <<"f", "t", "p">>, facility |-> 88],
     [name |-> <<"k", "e", "r", "n">>, facility |-> 0],
     [name |-> <<"l", "o", "c", "a", "l", "0">>, facility |-> 128],
     [name |-> <<"l", "o", "c", "a", "l", "1">>, facility |-> 136],
     [name |-> <<"l", "o", "c", "a", "l", "2">>, facility |-> 144],
     [name |-> <<"l", "o", "c", "a", "l", "3">>, facility |-> 152],
     [name |-> <<"l", "o", "c", "a", "l", "4">>, facility |-> 160],
     [name |-> <<"l", "o", "c", "a", "l", "5">>, facility |-> 168],
     [name |-> <<"l", "o", "c", "a", "l", "6">>, facility |-> 176],
     [name |-> <<"l", "o", "c", "a", "l", "7">>, facility |-> 184],
     [name |-> <<"l", "p", "r">>, facility |-> 48],
     [name |-> <<"m", "a", "i", "l">>, facility |-> 16],
     [name |-> <<"n", "e", "w", "s">>, facility |-> 56],
     [name |-> <<"s", "y", "s", "l", "o", "g">>, facility |-> 40],
     [name |-> <<"u", "s", "e", "r">>, facility |-> 8],
     [name |-> <<"u", "u", "c", "p">>, facility |-> 64] >>

\* int_syslog_facility (lines 1349-1435): the number of the first facility
\* whose name is strfacility without regard to case, -1 when there is none.
int_syslog_facility(strfacility) ==
  LET found == {k \in 1..Len(SyslogFacilities) :
                  strieq(strfacility, SyslogFacilities[k].name)}
  IN IF found = {} THEN -1
     ELSE SyslogFacilities[CHOOSE k \in found : \A j \in found : k <= j].facility

\* The accounts getpwnam finds.
Users == { <<"r", "o", "o", "t">> }

\* The files is_secure accepts (lines 134-145: some permission for the
\* owner, none for the group or the others); of the files above only G.
SecureFiles == { <<"G">> }

\* read_passwd_from_file (lines 211-228): the first line of a secure file
\* that opens, the empty string otherwise.
read_passwd_from_file(filename) ==
  IF filename \in SecureFiles /\ CanOpen(filename) /\ LinesOf(filename) # <<>>
  THEN LinesOf(filename)[1]
  ELSE <<>>

\* parse_header (lines 276-290): TRUE when the name it returns is empty.
\* strchr starts at optarg + 1, which for an empty optarg lies behind the
\* terminator: what it finds there is not defined, and beyond is TRUE when
\* a ':' turns up.
parse_header_name_empty(optarg, beyond) ==
  IF optarg = <<>> THEN ~beyond
  ELSE LET colon == strchr(Tail(optarg), ":") IN
       colon = 0 \/ (optarg[1] = ":" /\ colon = 1)

(***************************************************************************)
(* http_parser_parse_url(optarg, len, 0, &u) of the bundled http-parser,   *)
(* in its strict build, as far as the backend-http-proxy-uri branch reads  *)
(* it (lines 912-947).  Characters are ASCII without control characters.   *)
(***************************************************************************)
IsAlpha(c) ==
  \E k \in 1..Len(UpperChars) : UpperChars[k] = c \/ LowerChars[k] = c

IsAlphaNum(c) == IsAlpha(c) \/ IsDigit(c)

IsHex(c) == IsDigit(c) \/ lowcase(c) \in {"a", "b", "c", "d", "e", "f"}

IsMark(c) == c \in {"-", "_", ".", "!", "~", "*", "'", "(", ")"}

IsUserinfoChar(c) ==
  IsAlphaNum(c) \/ IsMark(c) \/ c \in {"%", ";", ":", "&", "=", "+", "$", ","}

IsHostChar(c) == IsAlphaNum(c) \/ c \in {".", "-"}

IsUrlChar(c) == c \notin {" ", "\t", "\n", "\f", "\r", "#", "?"}

\* parse_url_char: the state after the character ch.
parse_url_char(s, ch) ==
  IF ch \in {" ", "\t", "\n", "\f", "\r"} THEN "dead"
  ELSE IF s = "spaces_before_url" THEN
    IF ch \in {"/", "*"} THEN "path"
    ELSE IF IsAlpha(ch) THEN "schema" ELSE "dead"
  ELSE IF s = "schema" THEN
    IF IsAlpha(ch) THEN "schema"
    ELSE IF ch = ":" THEN "schema_slash" ELSE "dead"
  ELSE IF s = "schema_slash" THEN
    IF ch = "/" THEN "schema_slash_slash" ELSE "dead"
  ELSE IF s = "schema_slash_slash" THEN
    IF ch = "/" THEN "server_start" ELSE "dead"
  ELSE IF s \in {"server_with_at", "server_start", "server"} THEN
    IF s = "server_with_at" /\ ch = "@" THEN "dead"
    ELSE IF ch = "/" THEN "path"
    ELSE IF ch = "?" THEN "query_string_start"
    ELSE IF ch = "@" THEN "server_with_at"
    ELSE IF IsUserinfoChar(ch) \/ ch \in {"[", "]"} THEN "server"
    ELSE "dead"
  ELSE IF s = "path" THEN
    IF IsUrlChar(ch) THEN "path"
    ELSE IF ch = "?" THEN "query_string_start"
    ELSE IF ch = "#" THEN "fragment_start" ELSE "dead"
  ELSE IF s \in {"query_string_start", "query_string"} THEN
    IF IsUrlChar(ch) \/ ch = "?" THEN "query_string"
    ELSE IF ch = "#" THEN "fragment_start" ELSE "dead"
  ELSE IF s = "fragment_start" THEN
    IF IsUrlChar(ch) \/ ch = "?" THEN "fragment"
    ELSE IF ch = "#" THEN "fragment_start" ELSE "dead"
  ELSE IF s = "fragment" THEN
    IF IsUrlChar(ch) \/ ch \in {"?", "#"} THEN "fragment" ELSE "dead"
  ELSE "dead"

\* The loop of http_parser_parse_url from position i: the field UF_HOST as
\* the positions off..off + len - 1 (len = 0: not set), whether an '@' was
\* found, and whether a character was refused.
RECURSIVE parse_url_loop(_, _, _, _, _, _)
parse_url_loop(buf, i, s, off, len, found_at) ==
  IF i > Len(buf)
  THEN [dead |-> FALSE, off |-> off, len |-> len, found_at |-> found_at]
  ELSE CHOOSE u \in
         { IF t = "dead"
           THEN [dead |-> TRUE, off |-> o, len |-> l, found_at |-> f]
           ELSE IF t \in {"server", "server_with_at"}
           THEN parse_url_loop(buf, i + 1, t, IF l = 0 THEN i ELSE o, l + 1,
                               f \/ t = "server_with_at")
           ELSE parse_url_loop(buf, i + 1, t, o, l, f) :
           t \in {parse_url_char(s, buf[i])}, o \in {off}, l \in {len},
           f \in {found_at} } : TRUE

\* http_parse_host_char: the state after the character ch.
http_parse_host_char(s, ch) ==
  IF s \in {"userinfo", "userinfo_start"} THEN
    IF ch = "@" THEN "host_start"
    ELSE IF IsUserinfoChar(ch) THEN "userinfo" ELSE "dead"
  ELSE IF s = "host_start" THEN
    IF ch = "[" THEN "host_v6_start"
    ELSE IF IsHostChar(ch) THEN "host" ELSE "dead"
  ELSE IF s \in {"host", "host_v6_end"} THEN
    IF s = "host" /\ IsHostChar(ch) THEN "host"
    ELSE IF ch = ":" THEN "host_port_start" ELSE "dead"
  ELSE IF s \in {"host_v6", "host_v6_start"} THEN
    IF s = "host_v6" /\ ch = "]" THEN "host_v6_end"
    ELSE IF IsHex(ch) \/ ch \in {":", "."} THEN "host_v6" ELSE "dead"
  ELSE IF s \in {"host_port", "host_port_start"} THEN
    IF IsDigit(ch) THEN "host_port" ELSE "dead"
  ELSE "dead"

\* The loop of http_parse_host over the positions i..last of buf: the last
\* state and the position where the port starts (0: no port).
RECURSIVE http_parse_host_loop(_, _, _, _, _)
http_parse_host_loop(buf, i, last, s, port) ==
  IF i > last THEN [s |-> s, port |-> port]
  ELSE CHOOSE h \in
         { IF t = "dead" THEN [s |-> "dead", port |-> p]
           ELSE http_parse_host_loop(buf, i + 1, last, t,
                                     IF t = "host_port" /\ p = 0 THEN i ELSE p) :
           t \in {http_parse_host_char(s, buf[i])}, p \in {port} } : TRUE

\* The largest port http_parser_parse_url accepts.
MaxPort == <<"6", "5", "5", "3", "5">>

\* The backend-http-proxy-uri branch (lines 912-947).  It tests
\* u.field_set against the field numbers UF_HOST = 1 and UF_PORT = 2, not
\* against the bits 1 << UF_HOST and 1 << UF_PORT: what it asks for is the
\* bit of the scheme and the bit of the host.  A host comes only behind a
\* scheme, so it returns 0 when the URI parses and has a host; a port is not
\* needed, but one above the largest port makes the parse fail.
parse_proxy_uri(optarg) ==
  CHOOSE rv \in
    { IF u.dead \/ u.len = 0 THEN -1
      ELSE CHOOSE r \in
             { IF h.s \notin {"host", "host_v6_end", "host_port"} THEN -1
               ELSE IF h.port = 0 THEN 0
               ELSE IF DecLess(MaxPort,
                               strip_zeros(SubSeq(optarg, h.port,
                                                  u.off + u.len - 1)))
               THEN -1
               ELSE 0 :
               h \in {http_parse_host_loop(optarg, u.off, u.off + u.len - 1,
                                           IF u.found_at THEN "userinfo_start"
                                           ELSE "host_start", 0)} } : TRUE :
      u \in {parse_url_loop(optarg, 1, "spaces_before_url", 0, 0, FALSE)} } :
    TRUE

\* A return of parse_config that leaves the table gs alone.
Ret(ret, gs) == Returned(ret) @@ [groups |-> gs]

\* The frontend branch (lines 564-584).
parse_config_frontend(optarg, gs, log) ==
  IF istartsWith(optarg, SHRPX_UNIX_PATH_PREFIX) THEN Ret(0, gs)
  ELSE LET r == split_host_port(NI_MAXHOST, optarg, Len(optarg), log) IN
       IF r.outcome = "throw" THEN r @@ [groups |-> gs]
       ELSE Ret(r.ret, gs)

\* The branches for the window bits of a stream (lines 709-737) and of a
\* connection (lines 739-767).
parse_config_window_bits(optarg, lowest) ==
  LET r == parse_uint_dest(optarg) IN
  IF r.ret # 0 THEN -1
  ELSE IF r.dest < lowest \/ r.dest >= 31 THEN -1
  ELSE 0

\* The altsvc branch (lines 1053-1100).
parse_config_altsvc(optarg) ==
  LET tokens == parse_config_str_list(optarg, ",")
      r == parse_uint_dest(tokens[2])
  IN IF Len(tokens) < 2 \/ Len(tokens) > 4 THEN -1
     ELSE IF r.ret # 0 THEN -1
     ELSE IF r.dest < 1 \/ r.dest > 65535 THEN -1
     ELSE 0

\* parse_config for an option other than include (lines 531-1239 and
\* 1258-1266): what it returns and the table it leaves.  beyond is what the
\* read behind the terminator in parse_header finds.
parse_config_option(opt, optarg, gs, log, beyond) ==
  IF strieq(opt, SHRPX_OPT_BACKEND) THEN parse_config_backend(optarg, gs, log)
  ELSE IF strieq(opt, SHRPX_OPT_FRONTEND)
  THEN parse_config_frontend(optarg, gs, log)
  ELSE IF IsOption(opt, UintOptions) THEN Ret(parse_uint_dest(optarg).ret, gs)
  ELSE IF strieq(opt, SHRPX_OPT_LOG_LEVEL)
  THEN Ret(set_severity_level_by_name(optarg), gs)
  ELSE IF IsOption(opt, YesNoOptions) THEN Ret(0, gs)
  ELSE IF IsOption(opt, DurationOptions) THEN Ret(parse_duration(optarg), gs)
  ELSE IF IsOption(opt, StringOptions) THEN Ret(0, gs)
  ELSE IF IsOption(opt, {SHRPX_OPT_FRONTEND_HTTP2_WINDOW_BITS,
                         SHRPX_OPT_BACKEND_HTTP2_WINDOW_BITS})
  THEN Ret(parse_config_window_bits(optarg, -2147483647 - 1), gs)
  ELSE IF IsOption(opt, {SHRPX_OPT_FRONTEND_HTTP2_CONNECTION_WINDOW_BITS,
                         SHRPX_OPT_BACKEND_HTTP2_CONNECTION_WINDOW_BITS})
  THEN Ret(parse_config_window_bits(optarg, 16), gs)
  ELSE IF strieq(opt, SHRPX_OPT_USER)
  THEN Ret(IF optarg \in Users THEN 0 ELSE -1, gs)
  ELSE IF strieq(opt, SHRPX_OPT_PRIVATE_KEY_PASSWD_FILE)
  THEN Ret(IF read_passwd_from_file(optarg) = <<>> THEN -1 ELSE 0, gs)
  ELSE IF strieq(opt, SHRPX_OPT_SYSLOG_FACILITY)
  THEN Ret(IF int_syslog_facility(optarg) = -1 THEN -1 ELSE 0, gs)
  ELSE IF strieq(opt, SHRPX_OPT_BACKLOG)
  THEN LET r == parse_int(optarg) IN
       Ret(IF r.ret # 0 \/ r.dest < -1 THEN -1 ELSE 0, gs)
  ELSE IF strieq(opt, SHRPX_OPT_BACKEND_HTTP_PROXY_URI)
  THEN Ret(parse_proxy_uri(optarg), gs)
  ELSE IF IsOption(opt, UnitOptions)
  THEN Ret(IF parse_uint_with_unit(optarg).ok THEN 0 ELSE -1, gs)
  ELSE IF strieq(opt, SHRPX_OPT_ALTSVC) THEN Ret(parse_config_altsvc(optarg), gs)
  ELSE IF IsOption(opt, {SHRPX_OPT_ADD_REQUEST_HEADER,
                         SHRPX_OPT_ADD_RESPONSE_HEADER})
  THEN Ret(IF parse_header_name_empty(optarg, beyond) THEN -1 ELSE 0, gs)
  ELSE IF strieq(opt, SHRPX_OPT_BACKEND_HTTP1_CONNECTIONS_PER_HOST)
  THEN LET r == parse_uint_dest(optarg) IN
       Ret(IF r.ret # 0 \/ r.dest = 0 THEN -1 ELSE 0, gs)
  ELSE IF strieq(opt, SHRPX_OPT_RLIMIT_NOFILE)
  THEN LET r == parse_uint_dest(optarg) IN
       Ret(IF r.ret # 0 \/ r.dest < 0 THEN -1 ELSE 0, gs)
  ELSE IF IsOption(opt, {SHRPX_OPT_BACKEND_REQUEST_BUFFER,
                         SHRPX_OPT_BACKEND_RESPONSE_BUFFER})
  THEN LET r == parse_uint_with_unit(optarg) IN
       Ret(IF ~r.ok \/ r.zero THEN -1 ELSE 0, gs)
  ELSE IF strieq(opt, <<"c", "o", "n", "f">>) THEN Ret(0, gs)
  ELSE Ret(-1, gs)

\* An option line other than include is handed to parse_config.  -1 makes
\* load_config return -1 (line 1293); an exception that leaves parse_config
\* ends the program.
OptionLine(log, beyond) ==
  /\ Reading
  /\ LineKind(NextLine) = "option"
  /\ \E opt \in {OptOf(NextLine)}, optarg \in {OptargOf(NextLine)} :
       \E r \in {parse_config_option(opt, optarg, groups, log, beyond)} :
         /\ groups' = r.groups
         /\ directives' = IF r.groups # groups
                          THEN Append(directives, [addr |-> r.addr, src |-> r.mapping])
                          ELSE directives
         /\ phase' = IF r.outcome = "throw" THEN "terminated"
                     ELSE IF r.ret = -1 THEN "unwind" ELSE phase
         /\ call' = [op |-> "option", opt |-> opt, optarg |-> optarg,
                     result |-> IF r.outcome = "throw" THEN Thrown(r.what)
                                ELSE Returned(r.ret)]
  /\ stack' = Advanced
  /\ UNCHANGED <<catch_all, reader, included_set>>

\* include names a file that is in included_set: parse_config returns -1
\* and loads nothing (lines 1242-1245).
IncludeRejected ==
  /\ IncludeLine
  /\ already_included(included_set, OptargOf(NextLine))
  /\ stack' = Advanced
  /\ phase' = "unwind"
  /\ call' = IncludeReturned(OptargOf(NextLine), -1, FALSE, included_set)
  /\ UNCHANGED <<groups, catch_all, directives, reader, included_set>>

\* include names a file that cannot be opened: the name is put into the set,
\* load_config returns -1 at once and the name is erased (lines 1247-1253
\* and 1270-1274).
IncludeUnopened ==
  /\ IncludeLine
  /\ ~already_included(included_set, OptargOf(NextLine))
  /\ ~CanOpen(OptargOf(NextLine))
  /\ stack' = Advanced
  /\ included_set' = erase(emplace(included_set, OptargOf(NextLine)), OptargOf(NextLine))
  /\ phase' = "unwind"
  /\ call' = IncludeReturned(OptargOf(NextLine), -1, FALSE, included_set)
  /\ UNCHANGED <<groups, catch_all, directives, reader>>

\* include names a new file: the name is put into the set and load_config is
\* entered for it (lines 1247-1248).
IncludeEnter ==
  /\ IncludeLine
  /\ ~already_included(included_set, OptargOf(NextLine))
  /\ CanOpen(OptargOf(NextLine))
  /\ stack' = Append(Advanced, Frame(OptargOf(NextLine), included_set))
  /\ included_set' = emplace(included_set, OptargOf(NextLine))
  /\ call' = [op |-> "open", filename |-> OptargOf(NextLine)]
  /\ UNCHANGED <<groups, catch_all, phase, directives, reader>>

\* The innermost load_config call returns ret.  For an included file the
\* include directive erases its name and returns ret as well (lines
\* 1249-1255); -1 makes the load_config call around it return -1 (line 1293).
LoadConfigReturns(ret) ==
  /\ stack' = SubSeq(stack, 1, Len(stack) - 1)
  /\ IF Len(stack) = 1
     THEN /\ phase' = "done"
          /\ call' = LoadReturned(Top.filename, ret)
          /\ included_set' = included_set
     ELSE /\ phase' = IF ret = 0 THEN "load" ELSE "unwind"
          /\ call' = IncludeReturned(Top.filename, ret, TRUE, Top.before)
          /\ included_set' = erase(included_set, Top.filename)
  /\ UNCHANGED <<groups, catch_all, directives, reader>>

\* The end of the file: load_config returns 0 (line 1297).
EndOfFile ==
  /\ phase = "load"
  /\ Top.linenum = Len(LinesOf(Top.filename))
  /\ LoadConfigReturns(0)

\* A line has failed: load_config returns -1 (lines 1288 and 1294).
Unwind ==
  /\ phase = "unwind"
  /\ LoadConfigReturns(-1)

NextInclude ==
  \/ LoadConfig
  \/ SkipLine
  \/ BadLine
  \/ \E log \in BOOLEAN, beyond \in BOOLEAN : OptionLine(log, beyond)
  \/ IncludeRejected
  \/ IncludeUnopened
  \/ IncludeEnter
  \/ EndOfFile
  \/ Unwind

SpecInclude == InitInclude /\ [][NextInclude]_vars

\* Every step that can be taken is taken in the end: the program runs on.
SpecIncludeFair == SpecInclude /\ WF_vars(NextInclude)

(***************************************************************************)
(* Claims about the include option, checked under SpecInclude and          *)
(* SpecIncludeFair.                                                        *)
(***************************************************************************)

\* The names of the files entered through an include directive that has not
\* returned: the load_config calls in progress without the first.
IncludeChain == {stack[k].filename : k \in 2..Len(stack)}

\* The nesting of load_config calls is bounded by the number of files, and
\* no file is entered twice through the include directives in progress.
BoundedNesting ==
  /\ Len(stack) <= Cardinality(FileNames) + 1
  /\ \A j, k \in 2..Len(stack) : stack[j].filename = stack[k].filename => j = k

\* A step at an include line whose file is in included_set returns -1 and
\* enters no load_config call.
RejectsIncluded ==
  (IncludeLine /\ OptargOf(NextLine) \in included_set)
    => /\ call' = IncludeReturned(OptargOf(NextLine), -1, FALSE, included_set)
       /\ Len(stack') = Len(stack)
       /\ phase' = "unwind"
       /\ groups' = groups

\* load_config has returned to its first caller, or the program has ended.
Finished == phase \in {"done", "terminated"}

\* C21: include processing cannot recurse without bound: an include
\* directive naming a file that is in included_set returns -1 without
\* loading it, so every include cycle ends in an error after finitely many
\* nested load_config calls.
C21_IncludeTerminates ==
  /\ []BoundedNesting
  /\ [][RejectsIncluded]_vars
  /\ <>Finished
  /\ [](Finished => stack = <<>> \/ phase = "terminated")

\* In the cycle P, Q, R an include directive three levels deep named a file
\* of the set and was rejected without a load.
C21_Witness ==
  /\ call.op = "include"
  /\ call.ret = -1
  /\ ~call.loaded
  /\ call.optarg \in call.before
  /\ Len(stack) >= 4
  /\ phase = "unwind"

\* The address the directive "backend=h,8;a" of the file L registers.
AddrOfL == [host |-> <<"h">>, port |-> 8, host_unix |-> FALSE]

\* C22: when an include directive returns, whether the included file loaded
\* or failed, included_set is the set it was before the directive; at every
\* point included_set is the set of the files on the include chain in
\* progress, so a file included twice in sequence is accepted both times and
\* its directives are applied twice.
C22_IncludeRestoresSet ==
  /\ call.op = "include" => included_set = call.before
  /\ included_set = IncludeChain
  /\ (call.op = "include" /\ ~call.loaded)
       => call.optarg \in call.before \/ ~CanOpen(call.optarg)
  /\ (phase = "done" /\ call.filename \in {<<"T">>, <<"E">>})
       => /\ call.ret = 0
          /\ Len(directives) = 2
          /\ groups = <<Group(<<"a", "/">>, <<AddrOfL, AddrOfL>>)>>

\* The file T was loaded: its two include directives for L were both
\* accepted and L's backend directive was applied twice.
C22_Witness ==
  /\ phase = "done"
  /\ call = LoadReturned(<<"T">>, 0)
  /\ Len(directives) = 2
  /\ included_set = {}

====
